---------------------------- MODULE Spec2Model ----------------------------
(***************************************************************************)
(* Model of the HelloAgent chat backend: the per-session state kept by     *)
(* SessionManager, the channel handler of websocket_endpoint (message and  *)
(* stop events), and the tool-calling turn executor FunctionCallAgent.run  *)
(* with _process_iteration and _execute_tools.                             *)
(*                                                                         *)
(* Every turn runs as an asyncio task.  A task is suspended at an await;   *)
(* one action of the model resumes a task from the await it is suspended   *)
(* at and runs its code up to the next await.  Task.cancel() marks the     *)
(* task; the marked task's next step raises CancelledError at the await it *)
(* is suspended at.  websocket.send_json hands the event to the transport  *)
(* before it can suspend, so an event is emitted when its send is reached. *)
(*                                                                         *)
(* Strings are sequences of characters, so concatenation is \o.            *)
(***************************************************************************)
EXTENDS Integers, Sequences, FiniteSets, TLC

(* ------------------------------ bounds ----------------------------------*)
\* FunctionCallAgent.max_iterations (default 10), kept small
max_iterations == 2
\* the session of Spec, where turns supersede one another:
\* submit_message events accepted on the session
MaxTurns == 2
\* LLM calls answered with a stream, over all turns of the session
MaxResponses == 1
\* chunks the LLM streams, over all responses of the session
MaxChunks == 1
\* the session of SpecFlag, where a turn runs through its iterations:
\* submit_message events, answered LLM calls and streamed chunks as above
MaxFlagTurns == 1
MaxFlagResponses == 2
MaxFlagChunks == 2
\* distinct tool-call indices the LLM uses in one response
MaxToolCalls == 2
\* fragments of one response fed to the accumulation on its own
MaxFragments == 3
\* task ids the plans of a session draw from
MaxTaskIds == 3
\* add_task calls made on the task manager of a session
MaxAdds == 3
\* length of the longest dependency list of a task
MaxDependencies == 2
\* tasks of one plan
MaxPlanTasks == 2
\* PlanningAgent.max_iterations (default 20), kept small
PlannerMaxIterations == 3
\* stop events accepted on a planning session
MaxStops == 1
\* events a delegate sends before the last event of its run
MaxDelegateEvents == 2
\* ids that the callers of add_memory supply instead of a generated one
MaxMemoryIds == 1
\* memories in a document given to import_memories
MaxImport == 3
\* add_memory calls on a store that only receives add_memory calls
MaxMemoryCalls == 3
\* calls on a store that receives every operation
MaxStoreCalls == 2
\* max_short_term and max_long_term of the store
MaxShortTerm == 2
MaxLongTerm == 2
\* agent objects that carry one name
MaxAgentObjects == 2
\* sessions that the agent manager serves
MaxSessions == 2
\* calls on the agent manager
MaxManagerCalls == 4

\* dict.get(session_id) of an absent key: no message id / no task
NoId == 0

Turns == 1..MaxTurns

VARIABLES
    messages,         \* SessionManager._sessions[session_id]
    msg_owner,        \* per message: the turn that appended it (history variable)
    cancel_flag,      \* SessionManager._session_cancel_flags[session_id]
    current_message,  \* SessionManager._session_current_message[session_id]
    session_task,     \* SessionManager._session_tasks[session_id]
    nturns,           \* asyncio tasks created so far by the handler
    next_id,          \* source of fresh uuid message ids
    task,             \* per turn: coroutine position, locals, outcome record
    sent,             \* per turn: events it handed to websocket.send_json, in order
    answered,         \* LLM calls answered so far (bounds the LLM)
    limits,           \* what the session's environment offers: turns, responses, chunks
    connected,        \* the handler's receive loop is running (no disconnect yet)
    entries,          \* which of _sessions and _session_cancel_flags hold the session id
    fragments,        \* tool-call fragments still to be consumed (accumulation)
    consumed,         \* tool-call fragments already consumed (accumulation)
    acc_dict,         \* tool_calls_dict built from the consumed fragments
    tm_tasks,         \* TaskManager.tasks of the session: its values, in dict order
    tm_clock,         \* add_task calls made so far (history variable)
    planner,          \* per turn of a planning session: coroutine position, locals
    plan_stops,       \* stop events the handler of a planning session received
    memories,         \* MemoryManager.memories of a store: its values, in dict order
    mem_clock,        \* the last reading of datetime.now() by the store
    mem_calls,        \* calls of the store's operations made so far
    mem_added,        \* every Memory that add_memory created (history variable)
    mem_last,         \* the last call on the store and what it returned
    fresh_memories,   \* memories of the new store that received the last export
    manager,          \* AgentManager: _agents, _default_agent, _session_agents
    routed            \* calls on the manager: the last one, the agents run, events

vars == <<messages, msg_owner, cancel_flag, current_message, session_task,
          nturns, next_id, task, sent, answered, limits, connected, entries,
          fragments, consumed, acc_dict, tm_tasks, tm_clock, planner,
          plan_stops, memories, mem_clock, mem_calls, mem_added, mem_last,
          fresh_memories, manager, routed>>

sessionVars == <<messages, msg_owner, cancel_flag, current_message,
                 session_task, nturns, next_id, task, sent, answered, limits,
                 connected, entries>>
accVars == <<fragments, consumed, acc_dict>>
planVars == <<tm_tasks, tm_clock, planner, plan_stops>>
memVars == <<memories, mem_clock, mem_calls, mem_added, mem_last, fresh_memories>>
managerVars == <<manager, routed>>
serviceVars == <<memVars, managerVars>>

(* ------------------------- tool-call accumulation -----------------------*)
\* position of the entry for a call index in the insertion-ordered dict, 0 if absent
DictPos(dict, index) ==
    IF \E p \in 1..Len(dict) : dict[p].index = index
    THEN CHOOSE p \in 1..Len(dict) : dict[p].index = index
    ELSE 0

\* one tool_call fragment of a delta merged into tool_calls_dict
AccumulateToolCall(dict, tc) ==
    LET d1 == IF DictPos(dict, tc.index) = 0
              THEN Append(dict, [index |-> tc.index, id |-> tc.id,
                                 type |-> IF tc.type = "" THEN "function" ELSE tc.type,
                                 name |-> <<>>, arguments |-> <<>>])
              ELSE dict
        p  == DictPos(d1, tc.index)
        d2 == IF tc.has_function /\ tc.name # <<>>
              THEN [d1 EXCEPT ![p].name = tc.name] ELSE d1
    IN  IF tc.has_function /\ tc.arguments # <<>>
        THEN [d2 EXCEPT ![p].arguments = @ \o tc.arguments] ELSE d2

\* for tool_call in delta.tool_calls: ...
RECURSIVE AccumulateDelta(_, _)
AccumulateDelta(dict, tcs) ==
    IF tcs = <<>> THEN dict
    ELSE AccumulateDelta(AccumulateToolCall(dict, Head(tcs)), Tail(tcs))


(* ------------------------------ messages --------------------------------*)
NoCalls == <<>>

SystemMsg == [role |-> "system", content |-> <<"s">>, tool_calls |-> NoCalls,
              tool_call_id |-> NoId]
UserMsg(user_input) ==
    [role |-> "user", content |-> user_input, tool_calls |-> NoCalls,
     tool_call_id |-> NoId]
\* content None of an assistant message with tool calls is the empty string here
AssistantMsg(content, tool_calls) ==
    [role |-> "assistant", content |-> content, tool_calls |-> tool_calls,
     tool_call_id |-> NoId]
ToolMsg(tool_call, tool_result) ==
    [role |-> "tool", content |-> tool_result, tool_calls |-> NoCalls,
     tool_call_id |-> tool_call.id]

Event(type, message_id, content) ==
    [type |-> type, messageId |-> message_id, content |-> content]

(* --------------------------- the LLM's deltas ---------------------------*)
\* a tool_call fragment as the stream delivers it
Fragment(index, id, name, arguments) ==
    [index |-> index, id |-> id, type |-> "function", has_function |-> TRUE,
     name |-> name, arguments |-> arguments]

EmptyChunk == [choices |-> FALSE, tool_calls |-> <<>>, content |-> <<>>]
TextChunk  == [choices |-> TRUE, tool_calls |-> <<>>, content |-> <<"x">>]
ToolChunk(i) ==
    [choices |-> TRUE, content |-> <<>>,
     tool_calls |-> << Fragment(i, i + 1, <<"f">>, <<"a">>) >>]

Chunks == {EmptyChunk, TextChunk} \cup {ToolChunk(i) : i \in 0..(MaxToolCalls - 1)}

(* --------------------------- task records -------------------------------*)
NoTask ==
    [pc |-> "none", must_cancel |-> FALSE, message_id |-> NoId, iteration |-> 0,
     tool_calls_dict |-> <<>>, content_buffer |-> <<>>, tool_calls |-> <<>>,
     tool_idx |-> 0, tool_result |-> <<>>, chunks |-> 0,
     \* history fields, read by the properties only
     started |-> FALSE, llm_calls |-> 0, tool_responses |-> 0, final_response |-> FALSE,
     tools_run |-> 0, flag_seen |-> {}, cancelled |-> FALSE, failed |-> FALSE]

\* awaits inside the try block of run (lines 132-169)
InTry == {"llm", "send_start", "stream", "send_chunk", "send_end_tc", "send_tcs",
          "tool", "send_tool", "send_end_cancel", "send_end_final"}
\* awaits inside the except handlers of run (lines 176, 184)
InHandler == {"send_end_cancelled", "send_error"}

\* the session state and one task's record, as seen by that task's code
St(t) ==
    [messages |-> messages, msg_owner |-> msg_owner, cancel_flag |-> cancel_flag,
     current_message |-> current_message, next_id |-> next_id, sent |-> sent,
     entries |-> entries, tk |-> task[t]]

Commit(t, S) ==
    /\ messages' = S.messages
    /\ msg_owner' = S.msg_owner
    /\ cancel_flag' = S.cancel_flag
    /\ current_message' = S.current_message
    /\ next_id' = S.next_id
    /\ sent' = S.sent
    /\ entries' = S.entries
    /\ task' = [task EXCEPT ![t] = S.tk]

\* await websocket.send_json(...): the event is emitted, the task waits at pc
Send(S, t, type, message_id, content, pc) ==
    [S EXCEPT !.sent[t] = Append(@, Event(type, message_id, content)),
              !.tk.pc = pc]

\* messages.append(...)
AppendMsg(S, t, m) ==
    [S EXCEPT !.messages = Append(@, m), !.msg_owner = Append(@, t)]


(* ------------------ FunctionCallAgent.run and its helpers ---------------*)
\* run, line 167: the loop is over, send the final assistant_end
LoopEnd(S, t) ==
    Send(S, t, "assistant_end", S.tk.message_id, <<>>, "send_end_final")

\* BeginIteration without the check of the cancel flag
BeginIterationNoPreCheck(S, t, it) ==
    IF it >= max_iterations THEN LoopEnd(S, t)
    ELSE LET S1 == IF it > 0
                   THEN [S EXCEPT !.tk.message_id = S.next_id,
                                  !.current_message = S.next_id,
                                  !.next_id = @ + 1]
                   ELSE S
         IN  [S1 EXCEPT !.tk.iteration = it, !.tk.pc = "llm",
                        !.tk.llm_calls = @ + 1]

\* BeginIteration with the ceiling off by one
BeginIterationOffByOne(S, t, it) ==
    IF it > max_iterations THEN LoopEnd(S, t)
    ELSE IF S.cancel_flag
    THEN Send([S EXCEPT !.tk.flag_seen = @ \cup {"iter"}], t,
              "assistant_end", S.tk.message_id, <<>>, "send_end_cancel")
    ELSE LET S1 == IF it > 0
                   THEN [S EXCEPT !.tk.message_id = S.next_id,
                                  !.current_message = S.next_id,
                                  !.next_id = @ + 1]
                   ELSE S
         IN  [S1 EXCEPT !.tk.iteration = it, !.tk.pc = "llm",
                        !.tk.llm_calls = @ + 1]

\* run, lines 134-157 and _process_iteration up to the await of the LLM call:
\* the head of iteration `it` of the for loop
BeginIteration(S, t, it) ==
    IF it >= max_iterations THEN LoopEnd(S, t)
    ELSE IF S.cancel_flag
    THEN Send([S EXCEPT !.tk.flag_seen = @ \cup {"iter"}], t,
              "assistant_end", S.tk.message_id, <<>>, "send_end_cancel")
    ELSE LET S1 == IF it > 0
                   THEN [S EXCEPT !.tk.message_id = S.next_id,
                                  !.current_message = S.next_id,
                                  !.next_id = @ + 1]
                   ELSE S
         IN  [S1 EXCEPT !.tk.iteration = it, !.tk.pc = "llm",
                        !.tk.llm_calls = @ + 1]

\* BaseAgent._ensure_system_prompt
EnsureSystemPrompt(S, t) ==
    IF S.messages = <<>> \/ S.messages[1].role # "system"
    THEN [S EXCEPT !.messages = <<SystemMsg>> \o @, !.msg_owner = <<t>> \o @]
    ELSE S

\* RunStart leaving the cancel flag as it finds it
RunStartKeepsFlag(S, t, user_input) ==
    LET S1 == AppendMsg(EnsureSystemPrompt(S, t), t, UserMsg(user_input))
        S2 == [S1 EXCEPT !.tk.message_id = S.next_id, !.next_id = @ + 1,
                         !.current_message = S.next_id,
                         !.tk.started = TRUE]
    IN  BeginIteration(S2, t, 0)

\* run, lines 123-130, followed by the first iteration's head
RunStart(S, t, user_input) ==
    LET S1 == AppendMsg(EnsureSystemPrompt(S, t), t, UserMsg(user_input))
        S2 == [S1 EXCEPT !.tk.message_id = S.next_id, !.next_id = @ + 1,
                         !.cancel_flag = FALSE, !.current_message = S.next_id,
                         !.entries = @ \cup {"_session_cancel_flags"},
                         !.tk.started = TRUE]
    IN  BeginIteration(S2, t, 0)

\* _process_iteration, lines 276-305: the stream is exhausted
StreamExhausted(S, t) ==
    LET tool_calls == S.tk.tool_calls_dict
    IN  IF tool_calls # <<>>
        THEN Send(AppendMsg([S EXCEPT !.tk.tool_calls = tool_calls,
                                      !.tk.tool_responses = @ + 1], t,
                            AssistantMsg(S.tk.content_buffer, tool_calls)),
                  t, "assistant_end", S.tk.message_id, <<>>, "send_end_tc")
        ELSE LoopEnd(AppendMsg([S EXCEPT !.tk.final_response = TRUE], t,
                               AssistantMsg(S.tk.content_buffer, NoCalls)), t)

\* ProcessChunk leaving the loop with break instead of return False
ProcessChunkBreak(S, t, chunk) ==
    LET S0 == [S EXCEPT !.tk.chunks = @ + 1]
    IN  IF S.cancel_flag
        THEN StreamExhausted([S0 EXCEPT !.tk.flag_seen = @ \cup {"stream"}], t)
        ELSE IF ~chunk.choices THEN [S0 EXCEPT !.tk.pc = "stream"]
        ELSE LET S1 == [S0 EXCEPT !.tk.tool_calls_dict =
                                      AccumulateDelta(@, chunk.tool_calls)]
             IN  IF chunk.content # <<>>
                 THEN Send([S1 EXCEPT !.tk.content_buffer = @ \o chunk.content], t,
                           "assistant_chunk", S.tk.message_id, chunk.content,
                           "send_chunk")
                 ELSE [S1 EXCEPT !.tk.pc = "stream"]

\* _process_iteration, lines 233-274: one chunk of the stream
ProcessChunk(S, t, chunk) ==
    LET S0 == [S EXCEPT !.tk.chunks = @ + 1]
    IN  IF S.cancel_flag
        THEN LoopEnd([S0 EXCEPT !.tk.flag_seen = @ \cup {"stream"}], t)
        ELSE IF ~chunk.choices THEN [S0 EXCEPT !.tk.pc = "stream"]
        ELSE LET S1 == [S0 EXCEPT !.tk.tool_calls_dict =
                                      AccumulateDelta(@, chunk.tool_calls)]
             IN  IF chunk.content # <<>>
                 THEN Send([S1 EXCEPT !.tk.content_buffer = @ \o chunk.content], t,
                           "assistant_chunk", S.tk.message_id, chunk.content,
                           "send_chunk")
                 ELSE [S1 EXCEPT !.tk.pc = "stream"]

\* ExecuteTools without the check of the cancel flag
ExecuteToolsNoCheck(S, t, k) ==
    IF k > Len(S.tk.tool_calls)
    THEN BeginIteration(S, t, S.tk.iteration + 1)
    ELSE [S EXCEPT !.tk.tool_idx = k, !.tk.pc = "tool", !.tk.tools_run = @ + 1]

\* _execute_tools, lines 338-347: the head of the for loop at tool number k
ExecuteTools(S, t, k) ==
    IF k > Len(S.tk.tool_calls)
    THEN BeginIteration(S, t, S.tk.iteration + 1)
    ELSE IF S.cancel_flag
    THEN BeginIteration([S EXCEPT !.tk.flag_seen = @ \cup {"tool"}], t,
                        S.tk.iteration + 1)
    ELSE [S EXCEPT !.tk.tool_idx = k, !.tk.pc = "tool", !.tk.tools_run = @ + 1]

\* _execute_tools, lines 347-354: the tool returned, send its result
ToolReturned(S, t, tool_result) ==
    Send([S EXCEPT !.tk.tool_result = tool_result], t,
         "tool_call", NoId, tool_result, "send_tool")

\* _execute_tools, lines 356-364, and on to the next tool
ToolMessageAppended(S, t) ==
    ExecuteTools(AppendMsg(S, t, ToolMsg(S.tk.tool_calls[S.tk.tool_idx],
                                         S.tk.tool_result)),
                 t, S.tk.tool_idx + 1)

\* run, lines 171-179: except asyncio.CancelledError
ExceptCancelled(S, t) ==
    LET current_id == IF S.current_message # NoId THEN S.current_message
                      ELSE S.tk.message_id
    IN  Send([S EXCEPT !.tk.must_cancel = FALSE, !.tk.cancelled = TRUE], t,
             "assistant_end", current_id, <<>>, "send_end_cancelled")

\* ExceptException swallowing the failure and going on with the next iteration
ExceptExceptionRetry(S, t) ==
    BeginIteration([S EXCEPT !.tk.failed = TRUE], t, S.tk.iteration + 1)

\* run, lines 180-186: except Exception
ExceptException(S, t) ==
    Send([S EXCEPT !.tk.failed = TRUE], t, "error", NoId, <<>>, "send_error")

\* Finally leaving the current message id in place
FinallyKeepsMessage(S, t) ==
    [S EXCEPT !.cancel_flag = FALSE, !.entries = @ \cup {"_session_cancel_flags"},
              !.tk.pc = "done"]

\* run, lines 187-189: finally, and the coroutine is over
Finally(S, t) ==
    [S EXCEPT !.cancel_flag = FALSE, !.entries = @ \cup {"_session_cancel_flags"},
              !.current_message = NoId, !.tk.pc = "done"]


(* ------------------- steps of a turn's asyncio task ---------------------*)
UserInputs == {<<"u">>}

(* ---------------------- ToolRegistry.execute_tool -----------------------*)
\* what json.loads(arguments_str) does: returns a dict, returns another value,
\* raises JSONDecodeError, or raises another exception (RecursionError on deep
\* nesting, ValueError on an integer of too many digits)
ArgumentKinds == {"object", "not_object", "malformed", "unparsable"}
\* what tool.execute(**arguments) does
ToolOutcomes == {"returns", "type_error", "raises"}
\* a call as the registry sees it: is the name registered, the arguments, the tool
ToolCases == [known : BOOLEAN, arguments : ArgumentKinds, tool : ToolOutcomes]
OkCase == [known |-> TRUE, arguments |-> "object", tool |-> "returns"]

Returned(result) == [raised |-> FALSE, result |-> result]
Raised == [raised |-> TRUE, result |-> <<>>]

\* ToolRegistry.execute_tool: the string it returns, or that it raises; error
\* strings start with "E" (the prefix of the registry's error messages)
execute_tool(c) ==
    IF ~c.known THEN Returned(<<"E", "u">>)
    ELSE IF c.arguments = "malformed" THEN Returned(<<"E", "j">>)
    ELSE IF c.arguments = "unparsable" THEN Raised
    ELSE IF c.arguments = "not_object" \/ c.tool = "type_error"
    THEN Returned(<<"E", "m">>)
    ELSE IF c.tool = "raises" THEN Returned(<<"E", "f">>)
    ELSE Returned(<<"r">>)

RECURSIVE SumChunks(_)
SumChunks(n) == IF n = 0 THEN 0 ELSE task[n].chunks + SumChunks(n - 1)
\* chunks streamed so far to all turns
Streamed == SumChunks(MaxTurns)

Resumable(t, pcs) == task[t].pc \in pcs /\ ~task[t].must_cancel
TaskFrame == UNCHANGED <<session_task, nturns, answered, limits, connected, accVars, planVars, serviceVars>>
TaskFrameLLM == UNCHANGED <<session_task, nturns, limits, connected, accVars, planVars, serviceVars>>

\* first step of the task: AgentManager.run resolves the agent and awaits agent.run
StartTurn(t) ==
    /\ Resumable(t, {"new"})
    /\ \E user_input \in UserInputs : Commit(t, RunStart(St(t), t, user_input))
    /\ TaskFrame

\* chat.completions.create returned: send assistant_start (line 226)
LLMResponds(t) ==
    /\ Resumable(t, {"llm"})
    /\ answered < limits.responses
    /\ answered' = answered + 1
    /\ Commit(t, Send(St(t), t, "assistant_start", task[t].message_id, <<>>,
                      "send_start"))
    /\ TaskFrameLLM

\* the LLM call or its stream raised
LLMRaises(t) ==
    /\ Resumable(t, {"llm", "stream"})
    /\ Commit(t, ExceptException(St(t), t))
    /\ TaskFrame

\* lines 229-233: fresh accumulators, wait for the first chunk
StartSent(t) ==
    /\ Resumable(t, {"send_start"})
    /\ Commit(t, [St(t) EXCEPT !.tk.tool_calls_dict = <<>>,
                               !.tk.content_buffer = <<>>,
                               !.tk.pc = "stream"])
    /\ TaskFrame

\* the next chunk of the stream; the LLM numbers the calls of a response 0, 1, ...
StreamChunk(t) ==
    /\ Resumable(t, {"stream"})
    /\ Streamed < limits.chunks
    /\ \E chunk \in Chunks :
          /\ \A j \in 1..Len(chunk.tool_calls) :
                chunk.tool_calls[j].index <= Len(task[t].tool_calls_dict)
          /\ Commit(t, ProcessChunk(St(t), t, chunk))
    /\ TaskFrame

StreamEnds(t) ==
    /\ Resumable(t, {"stream"})
    /\ Commit(t, StreamExhausted(St(t), t))
    /\ TaskFrame

ChunkSent(t) ==
    /\ Resumable(t, {"send_chunk"})
    /\ Commit(t, [St(t) EXCEPT !.tk.pc = "stream"])
    /\ TaskFrame

\* line 298 into _execute_tools, lines 324-335: send tool_calls_start
EndSentBeforeTools(t) ==
    /\ Resumable(t, {"send_end_tc"})
    /\ Commit(t, Send(St(t), t, "tool_calls_start", NoId, <<>>, "send_tcs"))
    /\ TaskFrame

ToolsStartSent(t) ==
    /\ Resumable(t, {"send_tcs"})
    /\ Commit(t, ExecuteTools(St(t), t, 1))
    /\ TaskFrame

\* ToolRegistry.execute_tool returned its string, or raised into run's handler
ToolReturns(t) ==
    /\ Resumable(t, {"tool"})
    /\ \E c \in limits.tool_cases :
          LET r == execute_tool(c)
          IN  Commit(t, IF r.raised THEN ExceptException(St(t), t)
                        ELSE ToolReturned(St(t), t, r.result))
    /\ TaskFrame

ToolResultSent(t) ==
    /\ Resumable(t, {"send_tool"})
    /\ Commit(t, ToolMessageAppended(St(t), t))
    /\ TaskFrame

\* the last send of the turn completed: return (or fall out of the handler)
TurnReturns(t) ==
    /\ Resumable(t, {"send_end_cancel", "send_end_final", "send_end_cancelled",
                     "send_error"})
    /\ Commit(t, Finally(St(t), t))
    /\ TaskFrame

\* the step of a task marked by Task.cancel(): CancelledError is raised at the
\* await the task is suspended at; a task that never ran does not run at all
DeliverCancel(t) ==
    /\ task[t].must_cancel
    /\ task[t].pc \notin {"none", "done"}
    /\ Commit(t,
         IF task[t].pc \in InTry THEN ExceptCancelled(St(t), t)
         ELSE IF task[t].pc \in InHandler
         THEN Finally([St(t) EXCEPT !.tk.must_cancel = FALSE,
                                    !.tk.cancelled = TRUE], t)
         ELSE [St(t) EXCEPT !.tk.must_cancel = FALSE, !.tk.cancelled = TRUE,
                            !.tk.pc = "done"])
    /\ TaskFrame

TaskStep(t) ==
    \/ StartTurn(t)
    \/ LLMResponds(t)
    \/ LLMRaises(t)
    \/ StartSent(t)
    \/ StreamChunk(t)
    \/ StreamEnds(t)
    \/ ChunkSent(t)
    \/ EndSentBeforeTools(t)
    \/ ToolsStartSent(t)
    \/ ToolReturns(t)
    \/ ToolResultSent(t)
    \/ TurnReturns(t)
    \/ DeliverCancel(t)

(* ----------------- the channel handler, websocket_endpoint --------------*)
\* current_task and not current_task.done()
TaskRunning == session_task # NoId /\ task[session_task].pc # "done"

\* Task.cancel() on the session's task
CancelCurrent(tasks) == [tasks EXCEPT ![session_task].must_cancel = TRUE]

\* SubmitMessage setting the flag without cancelling the running task
SubmitMessageNoCancel ==
    /\ connected
    /\ nturns < limits.turns
    /\ LET t == nturns + 1
       IN  /\ task' = [task EXCEPT ![t].pc = "new"]
           /\ session_task' = t
           /\ nturns' = t
    /\ cancel_flag' = IF TaskRunning THEN TRUE ELSE cancel_flag
    /\ entries' = entries \cup {"_sessions"}
                      \cup (IF TaskRunning THEN {"_session_cancel_flags"} ELSE {})
    /\ UNCHANGED <<messages, msg_owner, current_message, next_id, sent, answered,
                   limits, connected, accVars, planVars, serviceVars>>

\* "message" event, lines 258-310: cancel the running task, create the new one
SubmitMessage ==
    /\ connected
    /\ nturns < limits.turns
    /\ LET t == nturns + 1
           cancelled == IF TaskRunning THEN CancelCurrent(task) ELSE task
       IN  /\ task' = [cancelled EXCEPT ![t].pc = "new"]
           /\ session_task' = t
           /\ nturns' = t
    /\ cancel_flag' = IF TaskRunning THEN TRUE ELSE cancel_flag
    /\ entries' = entries \cup {"_sessions"}
                      \cup (IF TaskRunning THEN {"_session_cancel_flags"} ELSE {})
    /\ UNCHANGED <<messages, msg_owner, current_message, next_id, sent, answered,
                   limits, connected, accVars, planVars, serviceVars>>

\* "stop" event, lines 312-319
Stop ==
    /\ connected
    /\ cancel_flag' = TRUE
    /\ entries' = entries \cup {"_session_cancel_flags"}
    /\ task' = IF TaskRunning THEN CancelCurrent(task) ELSE task
    /\ UNCHANGED <<messages, msg_owner, current_message, session_task, nturns,
                   next_id, sent, answered, limits, connected, accVars, planVars, serviceVars>>

\* _cleanup, lines 306-310: done callback of the task
TaskDoneCallback ==
    /\ session_task # NoId
    /\ task[session_task].pc = "done"
    /\ session_task' = NoId
    /\ UNCHANGED <<messages, msg_owner, cancel_flag, current_message, nturns,
                   next_id, task, sent, answered, limits, connected, entries, accVars, planVars, serviceVars>>

\* SessionManager.set_cancel_flag(session_id, True) by a holder of the session
\* manager other than the handler of the running task
SetCancelFlag ==
    /\ ~cancel_flag
    /\ cancel_flag' = TRUE
    /\ entries' = entries \cup {"_session_cancel_flags"}
    /\ UNCHANGED <<messages, msg_owner, current_message, session_task, nturns,
                   next_id, task, sent, answered, limits, connected, accVars, planVars, serviceVars>>

\* WebSocketDisconnect, lines 321-324: SessionManager.cleanup_session cancels the
\* session's task and pops the session id from the four dicts. The turns keep
\* the list object of the history; an event sent from now on reaches nobody.
Disconnect ==
    /\ connected
    /\ connected' = FALSE
    /\ task' = IF TaskRunning THEN CancelCurrent(task) ELSE task
    /\ session_task' = NoId
    /\ cancel_flag' = FALSE
    /\ current_message' = NoId
    /\ entries' = {}
    /\ UNCHANGED <<messages, msg_owner, nturns, next_id, sent, answered, limits,
                   accVars, planVars, serviceVars>>

(* ----------------------------- TaskManager ------------------------------*)
\* agents/planning_agent.py. A task is the record of a Task object; stamp is
\* the number of the add_task call that stored it (history field).
TaskStatus == {"pending", "in_progress", "completed", "failed", "blocked"}
TaskPriority == {"low", "medium", "high", "critical"}
TaskIds == 1..MaxTaskIds
\* the dependency lists the plans use: none, the last id, the last two ids, ...
DependencySets == {(MaxTaskIds - n + 1)..MaxTaskIds : n \in 0..MaxDependencies}

\* Task(id=..., priority=..., dependencies=...): status defaults to pending
\* None, the default of Task.result, Task.error and of the keyword arguments
NoneValue == <<>>

Task(id, priority, dependencies, stamp) ==
    [id |-> id, description |-> <<"describe", id>>, status |-> "pending",
     priority |-> priority, dependencies |-> dependencies, result |-> NoneValue,
     error |-> NoneValue, stamp |-> stamp]

\* position of the key in the dict, 0 for self.tasks.get(id) is None
TaskPos(tasks, id) ==
    IF \E p \in 1..Len(tasks) : tasks[p].id = id
    THEN CHOOSE p \in 1..Len(tasks) : tasks[p].id = id
    ELSE 0

\* self.tasks[task.id] = task: a key the dict holds keeps its position
add_task(tasks, t) ==
    IF TaskPos(tasks, t.id) = 0
    THEN Append(tasks, t)
    ELSE [tasks EXCEPT ![TaskPos(tasks, t.id)] = t]

\* "if result:" and "if error:" skip None and the empty string alike
update_task_status(tasks, id, status, result, error) ==
    IF TaskPos(tasks, id) = 0
    THEN tasks
    ELSE [tasks EXCEPT ![TaskPos(tasks, id)].status = status,
                       ![TaskPos(tasks, id)].result = IF result # <<>> THEN result ELSE @,
                       ![TaskPos(tasks, id)].error = IF error # <<>> THEN error ELSE @]

\* mutant of dependencies_met: a dependency the manager does not hold counts as met
dependencies_met_AbsentOk(tasks, t) ==
    \A dep_id \in t.dependencies :
        \/ TaskPos(tasks, dep_id) = 0
        \/ tasks[TaskPos(tasks, dep_id)].status = "completed"

\* all(self.tasks.get(dep_id) and self.tasks[dep_id].status == COMPLETED ...)
dependencies_met(tasks, t) ==
    \A dep_id \in t.dependencies :
        /\ TaskPos(tasks, dep_id) # 0
        /\ tasks[TaskPos(tasks, dep_id)].status = "completed"

priority_order(priority) ==
    CASE priority = "critical" -> 0
      [] priority = "high" -> 1
      [] priority = "medium" -> 2
      [] priority = "low" -> 3

\* list.sort(key=...) is stable: the elements of each key, in their order in
\* the list, one key after the other
SortByPriority(seq) ==
    SelectSeq(seq, LAMBDA t : priority_order(t.priority) = 0)
        \o SelectSeq(seq, LAMBDA t : priority_order(t.priority) = 1)
        \o SelectSeq(seq, LAMBDA t : priority_order(t.priority) = 2)
        \o SelectSeq(seq, LAMBDA t : priority_order(t.priority) = 3)

\* get_executable_tasks, lines 95-120
get_executable_tasks(tasks) ==
    SortByPriority(SelectSeq(tasks,
        LAMBDA t : t.status = "pending" /\ dependencies_met(tasks, t)))

CountStatus(tasks, status) ==
    Cardinality({p \in 1..Len(tasks) : tasks[p].status = status})

\* the counts of get_progress
get_progress(tasks) ==
    [total |-> Len(tasks),
     completed |-> CountStatus(tasks, "completed"),
     in_progress |-> CountStatus(tasks, "in_progress"),
     pending |-> CountStatus(tasks, "pending"),
     failed |-> CountStatus(tasks, "failed")]

\* what the callers of the manager offer: add_task calls, priorities and
\* dependency lists of the tasks they add
TaskLimits(adds, priorities, dependency_sets) ==
    [adds |-> adds, priorities |-> priorities, dependency_sets |-> dependency_sets]

\* a caller stores a task; the ids are numbered in the order of their first use
AddTask ==
    /\ tm_clock < limits.adds
    /\ \E id \in TaskIds \cap (1..Len(tm_tasks) + 1), priority \in limits.priorities,
          dependencies \in limits.dependency_sets :
           tm_tasks' = add_task(tm_tasks, Task(id, priority, dependencies, tm_clock + 1))
    /\ tm_clock' = tm_clock + 1
    /\ UNCHANGED <<sessionVars, accVars, planner, plan_stops, serviceVars>>

\* a caller sets the status of a task
UpdateTaskStatus ==
    /\ \E id \in TaskIds, status \in TaskStatus :
           tm_tasks' = update_task_status(tm_tasks, id, status, NoneValue, NoneValue)
    /\ UNCHANGED <<tm_clock, sessionVars, accVars, planner, plan_stops, serviceVars>>

(* ----------------------------- PlanningAgent ----------------------------*)
\* agents/planning_agent.py on a session whose messages go to the planning
\* agent. The turns of the session are asyncio tasks running PlanningAgent.run;
\* all of them use the TaskManager of the session (_get_task_manager).
\* the local variable task of the driver before it picked a task
NoCurrentTask == Task(0, "medium", {}, 0)

NoPlanner ==
    [pc |-> "none", must_cancel |-> FALSE, message_id |-> NoId, iteration |-> 0,
     current |-> NoCurrentTask, delegate_message |-> NoId, output_buffer |-> <<>>,
     task_messages |-> <<>>,
     \* the events the delegate handed to the websocket it was given (history)
     delegate_events |-> <<>>,
     \* history fields, read by the properties only
     cancelled |-> FALSE, failed |-> FALSE,
     \* a stop event arrived while the turn was inside a delegate's run (history)
     stopped |-> FALSE]

\* awaits of run and of the driver that are inside the try block of run
PlannerInTry == {"planning", "send_noplan_start", "send_noplan_chunk", "send_noplan_end",
                 "send_todo_list", "send_in_progress", "send_task_end",
                 "send_summary_start", "send_summary_chunk", "send_summary_end"}
\* awaits inside the delegate's run: in its try block, in its handlers
InDelegateTry == {"delegate"}
InDelegateHandler == {"delegate_cancelled", "delegate_error"}
\* awaits inside the except handlers of PlanningAgent.run
PlannerInHandler == {"plan_end_cancelled", "plan_send_error"}
\* positions between the entry and the exit of _execute_tasks_sequentially
InDriver == {"send_in_progress", "send_task_end"} \cup InDelegateTry \cup InDelegateHandler

\* a plan of n tasks 1..n, each depending on the next one: the last is the first to run
ChainPlan(n) == [i \in 1..n |-> Task(i, "medium", IF i < n THEN {i + 1} ELSE {}, 0)]
\* n independent tasks, listed n..1
FlatPlan(n) == [i \in 1..n |-> Task(n + 1 - i, "medium", {}, 0)]
\* n independent tasks listed 1..n, the first the least urgent
MixedPlan(n) == [i \in 1..n |-> Task(i, IF i = 1 THEN "low" ELSE "high", {}, 0)]
\* n tasks listed 1..n, the last depending on itself
StallPlan(n) == [i \in 1..n |-> Task(i, "medium", IF i = n THEN {n} ELSE {}, 0)]
\* n tasks listed 1..n, the last depending on an id no task has
AbsentPlan(n) == [i \in 1..n |-> Task(i, "medium", IF i = n THEN {n + 1} ELSE {}, 0)]
\* the plans _plan_tasks parses from the LLM's answers
Plans == {ChainPlan(MaxPlanTasks), FlatPlan(MaxPlanTasks), MixedPlan(MaxPlanTasks),
          StallPlan(MaxPlanTasks), AbsentPlan(MaxPlanTasks)}

PS(t) ==
    [messages |-> messages, msg_owner |-> msg_owner, cancel_flag |-> cancel_flag,
     current_message |-> current_message, next_id |-> next_id, sent |-> sent,
     entries |-> entries, tm |-> tm_tasks, clock |-> tm_clock, pk |-> planner[t]]

PCommit(t, S) ==
    /\ messages' = S.messages
    /\ msg_owner' = S.msg_owner
    /\ cancel_flag' = S.cancel_flag
    /\ current_message' = S.current_message
    /\ next_id' = S.next_id
    /\ sent' = S.sent
    /\ entries' = S.entries
    /\ tm_tasks' = S.tm
    /\ tm_clock' = S.clock
    /\ planner' = [planner EXCEPT ![t] = S.pk]

\* await websocket.send_json(...) of the planning turn
PSend(S, t, type, message_id, content, pc) ==
    [S EXCEPT !.sent[t] = Append(@, Event(type, message_id, content)),
              !.pk.pc = pc]

\* run, lines 262-279: up to the await of the planning_start event; the awaits
\* of _analyze_project_context and _plan_tasks follow at pc "planning"
PlanRunStart(S, t, user_input) ==
    LET S1 == AppendMsg(EnsureSystemPrompt(S, t), t, UserMsg(user_input))
        S2 == [S1 EXCEPT !.pk.message_id = S.next_id, !.next_id = @ + 1,
                         !.cancel_flag = FALSE, !.current_message = S.next_id,
                         !.entries = @ \cup {"_session_cancel_flags"}]
    IN  PSend(S2, t, "planning_start", S2.pk.message_id, <<>>, "planning")

\* run, lines 343-345
PlannerFinally(S, t) ==
    [S EXCEPT !.cancel_flag = FALSE, !.current_message = NoId,
              !.entries = @ \cup {"_session_cancel_flags"},
              !.pk.pc = "done", !.pk.must_cancel = FALSE]

\* run, lines 330-336
PlannerExceptCancelled(S, t) ==
    PSend([S EXCEPT !.pk.must_cancel = FALSE, !.pk.cancelled = TRUE], t,
          "assistant_end", S.pk.message_id, <<>>, "plan_end_cancelled")

\* run, lines 337-342
PlannerExceptException(S, t) ==
    PSend([S EXCEPT !.pk.failed = TRUE], t, "error", NoId, <<>>, "plan_send_error")

\* _send_completion_summary, lines 734-740
CompletionSummary(S, t) ==
    PSend([S EXCEPT !.next_id = @ + 1], t, "assistant_start", S.next_id, <<>>,
          "send_summary_start")

\* _execute_single_task, lines 770-777; the driver keeps the Task object it picked
ExecuteSingleTask(S, t, picked) ==
    PSend([S EXCEPT !.tm = update_task_status(@, picked.id, "in_progress",
                                              NoneValue, NoneValue),
                    !.pk.current = picked], t,
          "todo_update", NoId, <<picked.id, "in_progress", NoneValue>>, "send_in_progress")

\* DriverHead marking the tasks that cannot run as blocked before it leaves
DriverHeadBlocks(S, t, iteration) ==
    LET S1 == [S EXCEPT !.pk.iteration = iteration]
        executable_tasks == get_executable_tasks(S.tm)
        blocked == [p \in 1..Len(S.tm) |->
                       IF S.tm[p].status = "pending"
                       THEN [S.tm[p] EXCEPT !.status = "blocked"] ELSE S.tm[p]]
    IN  IF iteration >= PlannerMaxIterations THEN CompletionSummary(S1, t)
        ELSE IF S.cancel_flag THEN CompletionSummary(S1, t)
        ELSE IF executable_tasks = <<>>
        THEN CompletionSummary([S1 EXCEPT !.tm = blocked], t)
        ELSE ExecuteSingleTask(S1, t, executable_tasks[1])

\* _execute_tasks_sequentially, lines 699-724: head of the loop; leaving the
\* function, by return or break, run goes on to the completion summary
DriverHead(S, t, iteration) ==
    LET S1 == [S EXCEPT !.pk.iteration = iteration]
        executable_tasks == get_executable_tasks(S.tm)
    IN  IF iteration >= PlannerMaxIterations THEN CompletionSummary(S1, t)
        ELSE IF S.cancel_flag THEN CompletionSummary(S1, t)
        ELSE IF executable_tasks = <<>> THEN CompletionSummary(S1, t)
        ELSE ExecuteSingleTask(S1, t, executable_tasks[1])

\* run, lines 313-315: for task in tasks: task_manager.add_task(task)
RECURSIVE add_tasks(_, _, _)
add_tasks(tasks, clock, plan) ==
    IF plan = <<>> THEN tasks
    ELSE add_tasks(add_task(tasks, [Head(plan) EXCEPT !.stamp = clock + 1]),
                   clock + 1, Tail(plan))

\* run, lines 313-325: the plan is stored, the todo_list event sent
StorePlan(S, t, plan) ==
    PSend([S EXCEPT !.tm = add_tasks(S.tm, S.clock, plan),
                    !.clock = @ + Len(plan)], t,
          "todo_list", S.pk.message_id, <<>>, "send_todo_list")

\* _delegate_to_agent, lines 827-866, and the start of the delegate's run
\* (FunctionCallAgent.run lines 123-130 on the fresh task_messages)
DelegateStart(S, t) ==
    [S EXCEPT !.cancel_flag = FALSE, !.current_message = S.next_id,
              !.next_id = @ + 1,
              !.entries = @ \cup {"_session_cancel_flags"},
              !.pk.delegate_message = S.next_id,
              !.pk.output_buffer = <<>>,
              !.pk.task_messages = <<SystemMsg, UserMsg(S.pk.current.description)>>,
              !.pk.delegate_events = <<>>,
              !.pk.pc = "delegate"]

\* OutputCapturingWebSocket.send_json, lines 852-858: the text of an
\* assistant_chunk event is captured, every event is forwarded
WrappedSend(S, t, data, pc) ==
    [S EXCEPT !.pk.output_buffer =
                  IF data.type = "assistant_chunk" THEN Append(@, data.content) ELSE @,
              !.pk.delegate_events = Append(@, data),
              !.sent[t] = Append(@, data),
              !.pk.pc = pc]

\* _delegate_to_agent, lines 868-870: "".join(output_buffer), or the default
\* text when the join is the empty string
TaskDoneText == <<"task_done">>
RECURSIVE JoinTexts(_)
JoinTexts(texts) ==
    IF texts = <<>> THEN <<>> ELSE Head(texts) \o JoinTexts(Tail(texts))
DelegateResult(output_buffer) ==
    IF JoinTexts(output_buffer) # <<>> THEN JoinTexts(output_buffer) ELSE TaskDoneText
\* str(e) of the ValueError of lines 830-833
AgentMissingText == <<"no_agent">>

\* the finally of the delegate's run (FunctionCallAgent.run lines 187-189)
DelegateFinally(S) ==
    [S EXCEPT !.cancel_flag = FALSE, !.current_message = NoId,
              !.entries = @ \cup {"_session_cancel_flags"}]

\* _execute_single_task, lines 785-794: the delegate's run returned
TaskCompleted(S, t) ==
    LET result == DelegateResult(S.pk.output_buffer)
    IN  PSend([S EXCEPT !.tm = update_task_status(@, S.pk.current.id, "completed",
                                                  result, NoneValue)], t,
              "todo_update", NoId, <<S.pk.current.id, "completed", result>>,
              "send_task_end")

\* _execute_single_task, lines 796-806: except Exception
TaskFailed(S, t) ==
    PSend([S EXCEPT !.tm = update_task_status(@, S.pk.current.id, "failed",
                                              NoneValue, AgentMissingText)], t,
          "todo_update", NoId, <<S.pk.current.id, "failed", AgentMissingText>>,
          "send_task_end")

PlannerResumable(t, pcs) == planner[t].pc \in pcs /\ ~planner[t].must_cancel
PlannerFrame ==
    UNCHANGED <<session_task, nturns, task, answered, limits, connected, accVars, plan_stops, serviceVars>>

\* first step of the task: AgentManager.run awaits PlanningAgent.run
PlannerStart(t) ==
    /\ PlannerResumable(t, {"new"})
    /\ \E user_input \in UserInputs : PCommit(t, PlanRunStart(PS(t), t, user_input))
    /\ PlannerFrame

\* _plan_tasks returned a plan
PlanArrives(t) ==
    /\ PlannerResumable(t, {"planning"})
    /\ \E plan \in limits.plans : PCommit(t, StorePlan(PS(t), t, plan))
    /\ PlannerFrame

\* _plan_tasks returned no task (lines 296-311): the first of three events
PlanEmpty(t) ==
    /\ PlannerResumable(t, {"planning"})
    /\ PCommit(t, PSend(PS(t), t, "assistant_start", planner[t].message_id, <<>>,
                        "send_noplan_start"))
    /\ PlannerFrame

\* the LLM call of _analyze_project_context raised (line 394)
PlanRaises(t) ==
    /\ PlannerResumable(t, {"planning"})
    /\ PCommit(t, PlannerExceptException(PS(t), t))
    /\ PlannerFrame

\* a send_json of the planning turn returned
PlannerSent(t) ==
    /\ PlannerResumable(t, PlannerInTry \ {"planning", "send_in_progress"})
    /\ LET S == PS(t)
           mid == planner[t].message_id
           sid == sent[t][Len(sent[t])].messageId
           pc == planner[t].pc
       IN  PCommit(t,
             CASE pc = "send_noplan_start" ->
                    PSend(S, t, "assistant_chunk", mid, <<"n">>, "send_noplan_chunk")
               [] pc = "send_noplan_chunk" ->
                    PSend(S, t, "assistant_end", mid, <<>>, "send_noplan_end")
               [] pc = "send_noplan_end" -> PlannerFinally(S, t)
               [] pc = "send_todo_list" -> DriverHead(S, t, 0)
               [] pc = "send_task_end" -> DriverHead(S, t, planner[t].iteration + 1)
               [] pc = "send_summary_start" ->
                    PSend(S, t, "assistant_chunk", sid,
                          <<get_progress(tm_tasks).total, get_progress(tm_tasks).completed,
                            get_progress(tm_tasks).failed>>, "send_summary_chunk")
               [] pc = "send_summary_chunk" ->
                    PSend(S, t, "assistant_end", sid, <<>>, "send_summary_end")
               [] pc = "send_summary_end" -> PlannerFinally(S, t))
    /\ PlannerFrame

\* the todo_update in_progress event is sent: the task is delegated
Delegate(t) ==
    /\ PlannerResumable(t, {"send_in_progress"})
    /\ PCommit(t, DelegateStart(PS(t), t))
    /\ PlannerFrame

\* the todo_update in_progress event is sent, the agent manager has no agent of
\* the task's assigned_agent name (lines 830-833)
DelegateMissing(t) ==
    /\ PlannerResumable(t, {"send_in_progress"})
    /\ PCommit(t, TaskFailed(PS(t), t))
    /\ PlannerFrame

\* the delegate's run returns: after its final assistant_end (line 167), or
\* after the event of one of its handlers was sent
DelegateReturns(t) ==
    /\ PlannerResumable(t, InDelegateTry \cup InDelegateHandler)
    /\ LET S == IF planner[t].pc \in InDelegateTry
                THEN WrappedSend(PS(t), t,
                                 Event("assistant_end", planner[t].delegate_message, <<>>),
                                 "delegate")
                ELSE PS(t)
       IN  PCommit(t, TaskCompleted(DelegateFinally(S), t))
    /\ PlannerFrame

\* the texts the delegate streams
DelegateTexts == {<<"a">>, <<"b">>}
\* the events of the delegate's run before its last one: a chunk of the
\* answer (line 268), a tool_call event (line 352)
DelegateEvents(message_id) ==
    {Event("assistant_chunk", message_id, text) : text \in DelegateTexts}
        \cup {Event("tool_call", NoId, <<"r">>)}

\* the delegate sends an event and waits for the next chunk or tool
DelegateSends(t) ==
    /\ PlannerResumable(t, InDelegateTry)
    /\ Len(planner[t].delegate_events) < limits.delegate_events
    /\ \E data \in DelegateEvents(planner[t].delegate_message) :
           PCommit(t, WrappedSend(PS(t), t, data, "delegate"))
    /\ PlannerFrame

\* an LLM call of the delegate raised: its run sends the error event
\* (FunctionCallAgent.run lines 180-186)
DelegateErrors(t) ==
    /\ PlannerResumable(t, InDelegateTry)
    /\ PCommit(t, WrappedSend(PS(t), t, Event("error", NoId, <<>>), "delegate_error"))
    /\ PlannerFrame

\* a send_json inside an except handler of PlanningAgent.run returned
PlannerHandlerSent(t) ==
    /\ PlannerResumable(t, PlannerInHandler)
    /\ PCommit(t, PlannerFinally(PS(t), t))
    /\ PlannerFrame

\* the step of a planning task marked by Task.cancel(): CancelledError is raised
\* at the await the task is suspended at
PlannerDeliverCancel(t) ==
    /\ planner[t].must_cancel
    /\ planner[t].pc \notin {"none", "done"}
    /\ LET S == PS(t)
           pc == planner[t].pc
       IN  PCommit(t,
             IF pc \in PlannerInTry THEN PlannerExceptCancelled(S, t)
             ELSE IF pc \in InDelegateTry
             THEN WrappedSend([S EXCEPT !.pk.must_cancel = FALSE], t,
                              Event("assistant_end", S.pk.delegate_message, <<>>),
                              "delegate_cancelled")
             ELSE IF pc \in InDelegateHandler
             THEN PlannerExceptCancelled(DelegateFinally(S), t)
             ELSE IF pc \in PlannerInHandler
             THEN PlannerFinally([S EXCEPT !.pk.cancelled = TRUE], t)
             ELSE [S EXCEPT !.pk.must_cancel = FALSE, !.pk.cancelled = TRUE,
                            !.pk.pc = "done"])
    /\ PlannerFrame

PlannerStep(t) ==
    \/ PlannerStart(t)
    \/ PlanArrives(t)
    \/ PlanEmpty(t)
    \/ PlanRaises(t)
    \/ PlannerSent(t)
    \/ Delegate(t)
    \/ DelegateMissing(t)
    \/ DelegateReturns(t)
    \/ DelegateErrors(t)
    \/ PlannerHandlerSent(t)
    \/ PlannerDeliverCancel(t)

PlannerRunning == session_task # NoId /\ planner[session_task].pc # "done"

\* "message" event, lines 258-310, the message naming the planning agent
PlanSubmitMessage ==
    /\ connected
    /\ nturns < limits.turns
    /\ LET t == nturns + 1
           cancelled == IF PlannerRunning
                        THEN [planner EXCEPT ![session_task].must_cancel = TRUE]
                        ELSE planner
       IN  /\ planner' = [cancelled EXCEPT ![t].pc = "new"]
           /\ session_task' = t
           /\ nturns' = t
    /\ cancel_flag' = IF PlannerRunning THEN TRUE ELSE cancel_flag
    /\ entries' = entries \cup {"_sessions"}
                      \cup (IF PlannerRunning THEN {"_session_cancel_flags"} ELSE {})
    /\ UNCHANGED <<messages, msg_owner, current_message, next_id, task, sent, answered,
                   limits, connected, accVars, tm_tasks, tm_clock, plan_stops, serviceVars>>

\* "stop" event, lines 312-319
PlanStop ==
    /\ connected
    /\ plan_stops < limits.stops
    /\ plan_stops' = plan_stops + 1
    /\ cancel_flag' = TRUE
    /\ entries' = entries \cup {"_session_cancel_flags"}
    /\ planner' = IF PlannerRunning
                  THEN [planner EXCEPT ![session_task].must_cancel = TRUE,
                                       ![session_task].stopped =
                                           @ \/ planner[session_task].pc \in InDelegateTry]
                  ELSE planner
    /\ UNCHANGED <<messages, msg_owner, current_message, session_task, nturns,
                   next_id, task, sent, answered, limits, connected, accVars,
                   tm_tasks, tm_clock, serviceVars>>

\* _cleanup, lines 306-310: done callback of the planning task
PlanTaskDoneCallback ==
    /\ session_task # NoId
    /\ planner[session_task].pc = "done"
    /\ session_task' = NoId
    /\ UNCHANGED <<messages, msg_owner, cancel_flag, current_message, nturns,
                   next_id, task, sent, answered, limits, connected, entries, accVars,
                   planVars, serviceVars>>

(* ----------------------------- MemoryManager ----------------------------*)
\* agents/memory.py: one store. The dict memories is the sequence of its
\* values in insertion order; every value sits under the key Memory.id.
MemoryType == {"SHORT_TERM", "LONG_TERM", "WORKING"}
MemoryImportance == {"LOW", "MEDIUM", "HIGH", "CRITICAL"}

\* the .value of a member of the two enums
EnumValue(member) ==
    CASE member = "SHORT_TERM" -> "short_term"
      [] member = "LONG_TERM" -> "long_term"
      [] member = "WORKING" -> "working"
      [] member = "LOW" -> "low"
      [] member = "MEDIUM" -> "medium"
      [] member = "HIGH" -> "high"
      [] member = "CRITICAL" -> "critical"

\* MemoryType(value), MemoryImportance(value): the member with that value
EnumOf(enum, value) == CHOOSE member \in enum : EnumValue(member) = value

\* ids that add_memory generates from the clock, ids that a caller supplies
GeneratedId(now) == <<"mem", now>>
SuppliedIds == {<<"id", k>> : k \in 1..MaxMemoryIds}

Memory(id, memory_type, importance, timestamp) ==
    [id |-> id, content |-> <<"content", id>>, memory_type |-> memory_type,
     importance |-> importance, timestamp |-> timestamp]

to_dict(memory) ==
    [id |-> memory.id, content |-> memory.content,
     memory_type |-> EnumValue(memory.memory_type),
     importance |-> EnumValue(memory.importance),
     timestamp |-> memory.timestamp]

\* a dict that from_dict turns into a Memory without raising
Loadable(data) ==
    /\ {"id", "content", "memory_type"} \subseteq DOMAIN data
    /\ \E member \in MemoryType : EnumValue(member) = data.memory_type
    /\ "importance" \in DOMAIN data
           => \E member \in MemoryImportance : EnumValue(member) = data.importance

\* importance defaults to medium; a missing timestamp is set by __post_init__
from_dict(data, now) ==
    [id |-> data.id, content |-> data.content,
     memory_type |-> EnumOf(MemoryType, data.memory_type),
     importance |-> EnumOf(MemoryImportance,
                           IF "importance" \in DOMAIN data THEN data.importance
                           ELSE "medium"),
     timestamp |-> IF "timestamp" \in DOMAIN data THEN data.timestamp ELSE now]

importance_order(importance) ==
    CASE importance = "CRITICAL" -> 3
      [] importance = "HIGH" -> 2
      [] importance = "MEDIUM" -> 1
      [] importance = "LOW" -> 0

\* position of the value under a key, 0 if the key is absent
MemoryPos(store, id) ==
    IF \E p \in 1..Len(store) : store[p].id = id
    THEN CHOOSE p \in 1..Len(store) : store[p].id = id
    ELSE 0

\* self.memories[memory.id] = memory: a key already present keeps its position
StoreMemory(store, memory) ==
    IF MemoryPos(store, memory.id) # 0
    THEN [store EXCEPT ![MemoryPos(store, memory.id)] = memory]
    ELSE Append(store, memory)

\* del self.memories[id] for every id of a set
DeleteIds(store, ids) == SelectSeq(store, LAMBDA m : m.id \notin ids)

get_memory(store, id) ==
    IF MemoryPos(store, id) = 0 THEN NoneValue ELSE store[MemoryPos(store, id)]

get_memories_by_type(store, memory_type) ==
    SelectSeq(store, LAMBDA m : m.memory_type = memory_type)

\* the sort keys of _cleanup_old_memories, compared as Python compares tuples
ShortTermKey(memory) == <<0, memory.timestamp>>
LongTermKey(memory) == <<importance_order(memory.importance), memory.timestamp>>
KeyLess(a, b) == a[1] < b[1] \/ (a[1] = b[1] /\ a[2] < b[2])

\* list.sort(key=...): stable, ascending; keys[p] is the key of list[p]
SortedBy(list, keys) ==
    LET Rank(i) == Cardinality({j \in 1..Len(list) :
                        \/ KeyLess(keys[j], keys[i])
                        \/ (keys[j] = keys[i] /\ j <= i)})
    IN  [p \in 1..Len(list) |-> list[CHOOSE i \in 1..Len(list) : Rank(i) = p]]
ShortTermKeys(list) == [p \in 1..Len(list) |-> ShortTermKey(list[p])]
LongTermKeys(list) == [p \in 1..Len(list) |-> LongTermKey(list[p])]

\* the ids of list[:len(list) - cap]
Overflow(list, cap) == {list[p].id : p \in 1..(Len(list) - cap)}

CleanupLongTerm(store, max_long_term) ==
    LET long_term == get_memories_by_type(store, "LONG_TERM")
    IN  IF Len(long_term) > max_long_term
        THEN DeleteIds(store, Overflow(SortedBy(long_term, LongTermKeys(long_term)), max_long_term))
        ELSE store

CleanupShortTerm(store, max_short_term) ==
    LET short_term == get_memories_by_type(store, "SHORT_TERM")
    IN  IF Len(short_term) > max_short_term
        THEN DeleteIds(store, Overflow(SortedBy(short_term, ShortTermKeys(short_term)), max_short_term))
        ELSE store

_cleanup_old_memories(store, max_short_term, max_long_term) ==
    CleanupLongTerm(CleanupShortTerm(store, max_short_term), max_long_term)

add_memory(store, memory, max_short_term, max_long_term) ==
    _cleanup_old_memories(StoreMemory(store, memory), max_short_term, max_long_term)

\* the attributes that the calls of update_memory set
UpdateFields == {"memory_type", "importance"}
UpdateValues(field) == IF field = "memory_type" THEN MemoryType ELSE limits.importances

update_memory(store, id, field, value) ==
    IF MemoryPos(store, id) = 0 THEN store
    ELSE [store EXCEPT ![MemoryPos(store, id)][field] = value]

delete_memory(store, id) == DeleteIds(store, {id})

\* memory_type None clears everything
NoMemoryType == "None"
clear_memories(store, memory_type) ==
    IF memory_type = NoMemoryType THEN <<>>
    ELSE SelectSeq(store, LAMBDA m : m.memory_type # memory_type)

get_statistics(store) ==
    [total |-> Len(store),
     by_type |-> [value \in {EnumValue(t) : t \in MemoryType} |->
                      Len(get_memories_by_type(store, EnumOf(MemoryType, value)))],
     by_importance |-> [value \in {EnumValue(i) : i \in MemoryImportance} |->
                      Len(SelectSeq(store,
                          LAMBDA m : m.importance = EnumOf(MemoryImportance, value)))]]

\* json.loads(json.dumps(...)) of the dicts of the values, in dict order
export_memories(store) == [memories |-> [p \in 1..Len(store) |-> to_dict(store[p])]]

\* the loop of import_memories: the store and the count when it stops, and
\* whether it stopped because from_dict raised
RECURSIVE ImportLoop(_, _, _, _)
ImportLoop(store, dicts, count, now) ==
    IF dicts = <<>> THEN [store |-> store, count |-> count, raised |-> FALSE]
    ELSE IF ~Loadable(Head(dicts))
         THEN [store |-> store, count |-> count, raised |-> TRUE]
         ELSE ImportLoop(StoreMemory(store, from_dict(Head(dicts), now)),
                         Tail(dicts), count + 1, now)

\* import_memories with from_dict ignoring the importance of the dicts
import_memories_DefaultImportance(store, data, now) ==
    LET dicts == IF "memories" \in DOMAIN data THEN data.memories ELSE <<>>
        plain == [p \in 1..Len(dicts) |->
                      [k \in DOMAIN dicts[p] \ {"importance"} |-> dicts[p][k]]]
        loop == ImportLoop(store, plain, 0, now)
    IN  [store |-> loop.store, count |-> IF loop.raised THEN 0 ELSE loop.count]

\* the store after the call and the number the call returns
import_memories(store, data, now) ==
    LET dicts == IF "memories" \in DOMAIN data THEN data.memories ELSE <<>>
        loop == ImportLoop(store, dicts, 0, now)
    IN  [store |-> loop.store, count |-> IF loop.raised THEN 0 ELSE loop.count]

\* documents offered to import_memories: n memories of one type without an
\* importance, the same followed by a dict without an id, a document
\* without the key memories
TypeDocument(memory_type, n) ==
    [memories |-> [i \in 1..n |->
        [id |-> <<"id", i>>, content |-> <<"content", i>>,
         memory_type |-> EnumValue(memory_type), timestamp |-> i]]]
BrokenDocument(memory_type) ==
    [memories |-> <<TypeDocument(memory_type, 1).memories[1],
                    [content |-> <<"content", 0>>, memory_type |-> "working"]>>]
EmptyDocument == [version |-> 1]
Documents ==
    {TypeDocument(memory_type, n) : memory_type \in MemoryType, n \in 1..MaxImport}
        \cup {BrokenDocument("SHORT_TERM"), EmptyDocument}

\* what the callers of a store are given: the number of calls, the two caps,
\* the importances they pass
MemoryLimits(calls, max_short_term, max_long_term, importances) ==
    [memory_calls |-> calls, max_short_term |-> max_short_term,
     max_long_term |-> max_long_term, importances |-> importances]

NoCall == [op |-> "none"]

\* add_memory: the id is the supplied one or is generated from the clock, the
\* timestamp is the clock; the clock may have advanced since the last call
AddMemory ==
    /\ mem_calls < limits.memory_calls
    /\ \E memory_type \in MemoryType, importance \in limits.importances, elapsed \in 0..1 :
         LET now == mem_clock + elapsed IN
         \E id \in SuppliedIds \cup {GeneratedId(now)} :
           LET memory == Memory(id, memory_type, importance, now) IN
           /\ memories' = add_memory(memories, memory,
                                     limits.max_short_term, limits.max_long_term)
           /\ mem_clock' = now
           /\ mem_added' = mem_added \cup {memory}
           /\ mem_last' = [op |-> "add_memory", memory |-> memory]
    /\ mem_calls' = mem_calls + 1
    /\ UNCHANGED <<fresh_memories, sessionVars, accVars, planVars, managerVars>>

StoredIds == {memories[p].id : p \in 1..Len(memories)}

UpdateMemory ==
    /\ mem_calls < limits.memory_calls
    /\ \E id \in StoredIds \cup SuppliedIds, field \in UpdateFields :
         \E value \in UpdateValues(field) :
           /\ memories' = update_memory(memories, id, field, value)
           /\ mem_last' = [op |-> "update_memory", id |-> id,
                           result |-> MemoryPos(memories, id) # 0]
    /\ mem_calls' = mem_calls + 1
    /\ UNCHANGED <<mem_clock, mem_added, fresh_memories, sessionVars, accVars,
                   planVars, managerVars>>

DeleteMemory ==
    /\ mem_calls < limits.memory_calls
    /\ \E id \in StoredIds \cup SuppliedIds :
           /\ memories' = delete_memory(memories, id)
           /\ mem_last' = [op |-> "delete_memory", id |-> id,
                           result |-> MemoryPos(memories, id) # 0]
    /\ mem_calls' = mem_calls + 1
    /\ UNCHANGED <<mem_clock, mem_added, fresh_memories, sessionVars, accVars,
                   planVars, managerVars>>

ClearMemories ==
    /\ mem_calls < limits.memory_calls
    /\ \E memory_type \in MemoryType \cup {NoMemoryType} :
           /\ memories' = clear_memories(memories, memory_type)
           /\ mem_last' = [op |-> "clear_memories", memory_type |-> memory_type]
    /\ mem_calls' = mem_calls + 1
    /\ UNCHANGED <<mem_clock, mem_added, fresh_memories, sessionVars, accVars,
                   planVars, managerVars>>

ImportMemories ==
    /\ mem_calls < limits.memory_calls
    /\ \E data \in Documents :
         LET imported == import_memories(memories, data, mem_clock) IN
           /\ memories' = imported.store
           /\ mem_last' = [op |-> "import_memories", data |-> data,
                           result |-> imported.count]
    /\ mem_calls' = mem_calls + 1
    /\ UNCHANGED <<mem_clock, mem_added, fresh_memories, sessionVars, accVars,
                   planVars, managerVars>>

\* the store is exported and a new MemoryManager imports the string
ExportToFresh ==
    /\ mem_last.op # "export_import"
    /\ LET imported == import_memories(<<>>, export_memories(memories), mem_clock) IN
           /\ fresh_memories' = imported.store
           /\ mem_last' = [op |-> "export_import", result |-> imported.count]
    /\ UNCHANGED <<memories, mem_clock, mem_calls, mem_added, sessionVars, accVars,
                   planVars, managerVars>>

(* ------------------------------ AgentManager ----------------------------*)
\* agents/agent_manager.py. An agent is an object with a name; two objects
\* registered under one name differ in their serial. The dict _agents is the
\* sequence of its values in insertion order, each under the key agent.name.
AgentNames == {"assistant", "planner"}
NoAgentName == "None"
Agent(name, serial) == [name |-> name, serial |-> serial]
NoAgent == [name |-> NoAgentName, serial |-> 0]
Agents == {Agent(name, serial) : name \in AgentNames, serial \in 1..MaxAgentObjects}
Sessions == 1..MaxSessions

NoAgents ==
    [_agents |-> <<>>, _default_agent |-> NoAgentName,
     _session_agents |-> [session_id \in Sessions |-> NoAgentName]]

\* position of the value under a key of _agents, 0 if the key is absent
AgentPos(agents, name) ==
    IF \E p \in 1..Len(agents) : agents[p].name = name
    THEN CHOOSE p \in 1..Len(agents) : agents[p].name = name
    ELSE 0

\* self._agents.get(name)
AgentsGet(agents, name) ==
    IF AgentPos(agents, name) = 0 THEN NoAgent ELSE agents[AgentPos(agents, name)]

\* register_agent with the default left alone whenever is_default is false
register_agent_KeepDefault(m, agent, is_default) ==
    [m EXCEPT
       !._agents = IF AgentPos(m._agents, agent.name) # 0
                   THEN [m._agents EXCEPT ![AgentPos(m._agents, agent.name)] = agent]
                   ELSE Append(m._agents, agent),
       !._default_agent = IF is_default THEN agent.name ELSE m._default_agent]

register_agent(m, agent, is_default) ==
    [m EXCEPT
       !._agents = IF AgentPos(m._agents, agent.name) # 0
                   THEN [m._agents EXCEPT ![AgentPos(m._agents, agent.name)] = agent]
                   ELSE Append(m._agents, agent),
       !._default_agent = IF is_default \/ m._default_agent = NoAgentName
                          THEN agent.name ELSE m._default_agent]

\* the default moves to the first key left, or to None
unregister_agent(m, name) ==
    IF AgentPos(m._agents, name) = 0 THEN m
    ELSE LET left == SelectSeq(m._agents, LAMBDA a : a.name # name)
         IN  [m EXCEPT
                !._agents = left,
                !._default_agent =
                    IF m._default_agent # name THEN m._default_agent
                    ELSE IF left = <<>> THEN NoAgentName ELSE left[1].name]

get_agent(m, name) ==
    AgentsGet(m._agents, IF name = NoAgentName THEN m._default_agent ELSE name)

\* self._session_agents.get(session_id, self._default_agent)
SessionAgentName(m, session_id) ==
    IF m._session_agents[session_id] = NoAgentName THEN m._default_agent
    ELSE m._session_agents[session_id]

get_session_agent(m, session_id) == AgentsGet(m._agents, SessionAgentName(m, session_id))

\* set_session_agent that records the binding of any name
set_session_agent_Unchecked(m, session_id, name) ==
    [m EXCEPT !._session_agents[session_id] = name]

set_session_agent(m, session_id, name) ==
    IF AgentPos(m._agents, name) # 0
    THEN [m EXCEPT !._session_agents[session_id] = name]
    ELSE m

switch_agent(m, session_id, name) ==
    IF AgentPos(m._agents, name) = 0 THEN m
    ELSE [m EXCEPT !._session_agents[session_id] = name]

\* what switch_agent returns
SwitchResult(m, session_id, name) ==
    IF AgentPos(m._agents, name) = 0
    THEN [success |-> FALSE,
          available_agents |-> [p \in 1..Len(m._agents) |-> m._agents[p].name]]
    ELSE [success |-> TRUE, old_agent |-> SessionAgentName(m, session_id),
          new_agent |-> name, agent_info |-> AgentsGet(m._agents, name)]

\* the agent that run picks when it always asks the session's binding
SelectAgentBySession(m, session_id, name) == get_session_agent(m, session_id)

\* lines 150-153 of run: the agent that handles the turn, NoAgent if none
SelectAgent(m, session_id, name) ==
    IF name # NoAgentName THEN get_agent(m, name) ELSE get_session_agent(m, session_id)

ErrorEvent == [type |-> "error", message |-> <<"no_agent">>]

\* the system message of an agent: its own system_prompt
AgentSystemMsg(agent) == [role |-> "system", content |-> <<"system_prompt", agent.name>>]

\* _ensure_system_prompt that also inserts when the first message is the
\* system prompt of another agent
ensure_system_prompt_OwnPrompt(history, agent) ==
    IF history = <<>> \/ history[1] # AgentSystemMsg(agent)
    THEN <<AgentSystemMsg(agent)>> \o history
    ELSE history

\* BaseAgent._ensure_system_prompt of the agent on the history it is given
ensure_system_prompt(history, agent) ==
    IF history = <<>> \/ history[1].role # "system"
    THEN <<AgentSystemMsg(agent)>> \o history
    ELSE history

\* the first two statements of agent.run: the system prompt, the user message
AgentRunStart(history, agent) ==
    Append(ensure_system_prompt(history, agent), [role |-> "user", agent |-> agent.name])

\* calls made on the manager, the last call with what it returned, the
\* history each session hands to run, the events run sent
NoRouted ==
    [calls |-> 0, last |-> [op |-> "none"],
     messages |-> [session_id \in Sessions |-> <<>>], sent |-> <<>>]

RegisterAgent ==
    /\ routed.calls < limits.manager_calls
    /\ \E agent \in Agents, is_default \in BOOLEAN :
         /\ manager' = register_agent(manager, agent, is_default)
         /\ routed' = [routed EXCEPT !.calls = @ + 1,
                          !.last = [op |-> "register_agent", agent |-> agent,
                                    is_default |-> is_default]]
    /\ UNCHANGED <<sessionVars, accVars, planVars, memVars>>

UnregisterAgent ==
    /\ routed.calls < limits.manager_calls
    /\ \E name \in AgentNames :
         /\ manager' = unregister_agent(manager, name)
         /\ routed' = [routed EXCEPT !.calls = @ + 1,
                          !.last = [op |-> "unregister_agent", agent_name |-> name,
                                    result |-> AgentPos(manager._agents, name) # 0]]
    /\ UNCHANGED <<sessionVars, accVars, planVars, memVars>>

SetSessionAgent ==
    /\ routed.calls < limits.manager_calls
    /\ \E session_id \in Sessions, name \in AgentNames :
         /\ manager' = set_session_agent(manager, session_id, name)
         /\ routed' = [routed EXCEPT !.calls = @ + 1,
                          !.last = [op |-> "set_session_agent", session_id |-> session_id,
                                    agent_name |-> name,
                                    result |-> AgentPos(manager._agents, name) # 0]]
    /\ UNCHANGED <<sessionVars, accVars, planVars, memVars>>

SwitchAgent ==
    /\ routed.calls < limits.manager_calls
    /\ \E session_id \in Sessions, name \in AgentNames :
         /\ manager' = switch_agent(manager, session_id, name)
         /\ routed' = [routed EXCEPT !.calls = @ + 1,
                          !.last = [op |-> "switch_agent", session_id |-> session_id,
                                    agent_name |-> name,
                                    result |-> SwitchResult(manager, session_id, name)]]
    /\ UNCHANGED <<sessionVars, accVars, planVars, memVars>>

\* AgentManager.run: without an agent it sends the error event and returns;
\* otherwise agent.run is awaited, which ensures the system prompt of the
\* history it was given and appends the user message
ManagerRun ==
    /\ routed.calls < limits.manager_calls
    /\ \E session_id \in Sessions, name \in AgentNames \cup {NoAgentName} :
         LET agent == SelectAgent(manager, session_id, name) IN
         routed' = [routed EXCEPT
                      !.calls = @ + 1,
                      !.last = [op |-> "run", session_id |-> session_id,
                                agent_name |-> name, ran |-> agent],
                      !.sent = IF agent = NoAgent THEN Append(@, ErrorEvent) ELSE @,
                      !.messages[session_id] =
                          IF agent = NoAgent THEN @ ELSE AgentRunStart(@, agent)]
    /\ UNCHANGED <<manager, sessionVars, accVars, planVars, memVars>>

(* --------------------------- specifications -----------------------------*)
SessionInit ==
    /\ messages = <<>>
    /\ msg_owner = <<>>
    /\ cancel_flag = FALSE
    /\ current_message = NoId
    /\ session_task = NoId
    /\ nturns = 0
    /\ next_id = 1
    /\ task = [t \in Turns |-> NoTask]
    /\ sent = [t \in Turns |-> <<>>]
    /\ answered = 0
    /\ connected = TRUE
    /\ entries = {}
    /\ tm_tasks = <<>>
    /\ tm_clock = 0
    /\ planner = [t \in Turns |-> NoPlanner]
    /\ plan_stops = 0
    /\ memories = <<>>
    /\ mem_clock = 0
    /\ mem_calls = 0
    /\ mem_added = {}
    /\ mem_last = NoCall
    /\ fresh_memories = <<>>
    /\ manager = NoAgents
    /\ routed = NoRouted

Limits(turns, responses, chunks) ==
    [turns |-> turns, responses |-> responses, chunks |-> chunks,
     tool_cases |-> {OkCase}]

Init ==
    /\ SessionInit
    /\ limits = Limits(MaxTurns, MaxResponses, MaxChunks)
    /\ fragments = <<>>
    /\ consumed = <<>>
    /\ acc_dict = <<>>

Next ==
    \/ SubmitMessage
    \/ Stop
    \/ TaskDoneCallback
    \/ \E t \in Turns : TaskStep(t)

\* the application: one session, its handler and its turns, which supersede
\* one another
Spec == Init /\ [][Next]_vars

NextTeardown ==
    \/ Next
    \/ Disconnect

\* the application up to and after the disconnect of the channel
SpecTeardown == Init /\ [][NextTeardown]_vars

InitFlag ==
    /\ SessionInit
    /\ limits = Limits(MaxFlagTurns, MaxFlagResponses, MaxFlagChunks)
    /\ fragments = <<>>
    /\ consumed = <<>>
    /\ acc_dict = <<>>

NextFlag ==
    \/ Next
    \/ SetCancelFlag

\* the application with the cancel flag also set without a task cancellation,
\* and an LLM that answers every iteration of a turn
SpecFlag == InitFlag /\ [][NextFlag]_vars


InitTool ==
    /\ SessionInit
    /\ limits = [Limits(MaxFlagTurns, MaxFlagResponses, MaxFlagChunks)
                     EXCEPT !.tool_cases = ToolCases]
    /\ fragments = <<>>
    /\ consumed = <<>>
    /\ acc_dict = <<>>

\* the application with tool calls that fail in every way the registry knows
SpecTool == InitTool /\ [][Next]_vars


(* ------------- the accumulation of tool-call fragments alone ------------*)
FragmentNames == {<<>>, <<"g">>, <<"w">>}
FragmentArgs  == {<<>>, <<"a">>}
Fragments ==
    {Fragment(i, i + 1, n, a) :
        i \in 0..(MaxToolCalls - 1), n \in FragmentNames, a \in FragmentArgs}

SeqsUpTo(S, n) == UNION {[1..m -> S] : m \in 0..n}

AccInit ==
    /\ SessionInit
    /\ limits = Limits(MaxTurns, MaxResponses, MaxChunks)
    /\ fragments \in SeqsUpTo(Fragments, MaxFragments)
    /\ consumed = <<>>
    /\ acc_dict = <<>>

\* one delta carrying one tool_call fragment goes through lines 245-263
ConsumeFragment ==
    /\ fragments # <<>>
    /\ acc_dict' = AccumulateDelta(acc_dict, <<Head(fragments)>>)
    /\ consumed' = Append(consumed, Head(fragments))
    /\ fragments' = Tail(fragments)
    /\ UNCHANGED <<sessionVars, planVars, serviceVars>>

NextAcc == ConsumeFragment

SpecAccum == AccInit /\ [][NextAcc]_vars

\* a session of planning turns
InitPlan ==
    /\ SessionInit
    /\ limits = Limits(MaxTurns, MaxResponses, MaxChunks)
                    @@ [plans |-> {ChainPlan(MaxPlanTasks), FlatPlan(MaxPlanTasks)},
                        stops |-> MaxStops]
    /\ fragments = <<>>
    /\ consumed = <<>>
    /\ acc_dict = <<>>

NextPlan ==
    \/ PlanSubmitMessage
    \/ PlanStop
    \/ PlanTaskDoneCallback
    \/ \E t \in Turns : PlannerStep(t)

SpecPlan == InitPlan /\ [][NextPlan]_vars

\* a session that receives one message for the planning agent
InitSolo ==
    /\ SessionInit
    /\ limits = Limits(1, MaxResponses, MaxChunks)
                    @@ [plans |-> Plans, stops |-> MaxStops]
    /\ fragments = <<>>
    /\ consumed = <<>>
    /\ acc_dict = <<>>

NextSolo ==
    \/ PlanSubmitMessage
    \/ PlanStop
    \/ PlanTaskDoneCallback
    \/ \E t \in Turns : PlannerStep(t)

SpecSolo == InitSolo /\ [][NextSolo]_vars

\* one message for the planning agent, the delegates streaming their answers
InitDelegate ==
    /\ SessionInit
    /\ limits = Limits(1, MaxResponses, MaxChunks)
                    @@ [plans |-> {FlatPlan(MaxPlanTasks)}, stops |-> MaxStops,
                        delegate_events |-> MaxDelegateEvents]
    /\ fragments = <<>>
    /\ consumed = <<>>
    /\ acc_dict = <<>>

NextDelegate ==
    \/ NextSolo
    \/ \E t \in Turns : DelegateSends(t)

SpecDelegate == InitDelegate /\ [][NextDelegate]_vars

\* the task manager on its own, driven through add_task and update_task_status
InitTasks ==
    /\ SessionInit
    /\ limits = Limits(MaxTurns, MaxResponses, MaxChunks)
                    @@ TaskLimits(MaxAdds, {"medium"}, DependencySets)
    /\ fragments = <<>>
    /\ consumed = <<>>
    /\ acc_dict = <<>>

NextTasks ==
    \/ AddTask
    \/ UpdateTaskStatus

SpecTasks == InitTasks /\ [][NextTasks]_vars

\* tasks without dependencies added in any order, with any priority
InitOrder ==
    /\ SessionInit
    /\ limits = Limits(MaxTurns, MaxResponses, MaxChunks)
                    @@ TaskLimits(MaxAdds, TaskPriority, {{}})
    /\ fragments = <<>>
    /\ consumed = <<>>
    /\ acc_dict = <<>>

NextOrder == AddTask

SpecOrder == InitOrder /\ [][NextOrder]_vars

(* ------------------------------ properties ------------------------------*)
Last(seq) == seq[Len(seq)]
EventsOf(t) == sent[t]
CountOwned(owners, t) == Cardinality({i \in 1..Len(owners) : owners[i] = t})
CountEvents(events, t, type) ==
    Cardinality({i \in 1..Len(events[t]) : events[t][i].type = type})

\* awaits after which the turn only returns
Ending == {"send_end_cancel", "send_end_final", "send_end_cancelled", "send_error"}
\* no turn is under way
Quiet == \A t \in Turns : task[t].pc \in {"none", "new", "done"}

\* every assistant message with tool calls is followed by its tool messages,
\* one per request, in request order, matched by id, and by no further one
WellFormed(msgs) ==
    \A i \in 1..Len(msgs) :
        (msgs[i].role = "assistant" /\ msgs[i].tool_calls # NoCalls) =>
            LET n == Len(msgs[i].tool_calls)
            IN  /\ i + n <= Len(msgs)
                /\ \A j \in 1..n :
                      /\ msgs[i + j].role = "tool"
                      /\ msgs[i + j].tool_call_id = msgs[i].tool_calls[j].id
                /\ (i + n + 1 <= Len(msgs) => msgs[i + n + 1].role # "tool")

\* C1: history well-formedness. Whenever no turn is under way (every turn that
\* ran has ended, by completion, cancellation or the ceiling), every assistant
\* message carrying tool calls is immediately followed by exactly one tool
\* message per request, in order, matched by tool_call_id.
C1_HistoryWellFormed == Quiet => WellFormed(messages)

\* C2: per-session serialization. The turns that appended the messages of the
\* history appear in it in the order they were started: once a newer turn has
\* appended, no older turn appends; and at most one turn is at a point from
\* which it can still append.
CanAppend(t) ==
    /\ task[t].started
    /\ ~task[t].must_cancel
    /\ task[t].pc \in {"llm", "send_start", "stream", "send_chunk", "send_end_tc",
                       "send_tcs", "tool", "send_tool"}
AtPreCheck(t) ==
    /\ task[t].pc \in {"send_tcs", "send_tool"}
    /\ ~task[t].must_cancel
    /\ task'[t].pc \notin {"send_tcs", "send_tool", "tool"}
    /\ task[t].iteration + 1 < max_iterations

\* C3: cancellation before an iteration. If cancel_flag is set when the
\* pre-check of an iteration runs, the step issues no LLM call, sends
\* assistant_end for the turn's current message id and goes to the return;
\* from then on the turn issues no LLM call and emits no error event.
C3_CancelBeforeIteration ==
    /\ [][\A t \in Turns :
            (AtPreCheck(t) /\ cancel_flag) =>
                /\ task'[t].llm_calls = task[t].llm_calls
                /\ task'[t].pc = "send_end_cancel"
                /\ sent'[t] = Append(sent[t], Event("assistant_end",
                                                     task[t].message_id, <<>>))]_vars
    /\ [][\A t \in Turns :
            "iter" \in task[t].flag_seen =>
                /\ task'[t].llm_calls = task[t].llm_calls
                /\ task'[t].pc \in Ending \cup {"done"}
                /\ CountEvents(sent', t, "error") = 0]_vars
\* a turn observed the flag at the pre-check of its second iteration and returned
C3_Witness ==
    \E t \in Turns :
        /\ "iter" \in task[t].flag_seen
        /\ task[t].pc = "done"
        /\ task[t].llm_calls = 1


\* the step of turn t receives a chunk of the stream
ChunkArrives(t) ==
    /\ task[t].pc = "stream"
    /\ ~task[t].must_cancel
    /\ task'[t].chunks = task[t].chunks + 1

\* C4: cancellation mid-stream. If cancel_flag is set when a chunk arrives, the
\* step emits no content delta, appends no message, and goes to the final
\* assistant_end; from that check on the turn emits no content delta, appends
\* no message, runs no tool and issues no LLM call.
C4_CancelMidStream ==
    /\ [][\A t \in Turns :
            (ChunkArrives(t) /\ cancel_flag) =>
                /\ messages' = messages
                /\ task'[t].pc = "send_end_final"
                /\ sent'[t] = Append(sent[t], Event("assistant_end",
                                                     task[t].message_id, <<>>))]_vars
    /\ [][\A t \in Turns :
            "stream" \in task'[t].flag_seen =>
                /\ CountEvents(sent', t, "assistant_chunk")
                       = CountEvents(sent, t, "assistant_chunk")
                /\ CountOwned(msg_owner', t) = CountOwned(msg_owner, t)
                /\ task'[t].tools_run = task[t].tools_run
                /\ task'[t].llm_calls = task[t].llm_calls]_vars
\* a turn that had streamed a content delta and accumulated a tool call saw the
\* flag at a later chunk and has returned
C4_Witness ==
    \E t \in Turns :
        /\ "stream" \in task[t].flag_seen
        /\ task[t].pc = "done"
        /\ task[t].chunks = 2
        /\ CountEvents(sent, t, "assistant_chunk") + Len(task[t].tool_calls_dict) = 1

\* C5: cancellation inside a tool batch. No step of a started turn that begins
\* with cancel_flag set dispatches a tool or issues an LLM call (the flag is
\* checked before every tool); once the check before a tool has seen the flag,
\* the turn runs no tool and issues no LLM call any more and only returns.
C5_CancelInToolBatch ==
    /\ [][\A t \in Turns :
            (task[t].started /\ cancel_flag) =>
                /\ task'[t].tools_run = task[t].tools_run
                /\ task'[t].llm_calls = task[t].llm_calls]_vars
    /\ [][\A t \in Turns :
            "tool" \in task[t].flag_seen =>
                /\ task'[t].tools_run = task[t].tools_run
                /\ task'[t].llm_calls = task[t].llm_calls
                /\ task'[t].pc \in Ending \cup {"done"}]_vars
\* the flag was seen before the second tool of a batch of two, after the first ran
C5_Witness ==
    \E t \in Turns :
        /\ "tool" \in task[t].flag_seen
        /\ Len(task[t].tool_calls) = 2
        /\ task[t].tools_run = 1
        /\ task[t].llm_calls = 1
        /\ task[t].pc = "done"

\* C6: cancellation is advisory for a running tool. A turn that is awaiting a
\* dispatched tool goes nowhere but to the sending of that tool's result, and
\* from there nowhere without appending the tool message.
C6_DispatchedToolCompletes ==
    [][\A t \in Turns :
          /\ (task[t].pc = "tool" => task'[t].pc \in {"tool", "send_tool"})
          /\ (task[t].pc = "send_tool" /\ task'[t].pc # "send_tool") =>
                /\ Len(messages') = Len(messages) + 1
                /\ Last(messages').role = "tool"
                /\ Last(msg_owner') = t]_vars

\* a turn ended neither cancelled (by flag or by task cancellation) nor by an error
EndedNormally(t) ==
    /\ task[t].pc = "done"
    /\ task[t].started
    /\ ~task[t].cancelled
    /\ ~task[t].failed
    /\ task[t].flag_seen = {}

\* C7: bounded iteration. No turn issues more than max_iterations LLM calls; a
\* turn that ended normally issued exactly one call more than it got responses
\* with tool calls if a response without tool calls came, else exactly
\* max_iterations calls, all answered with tool calls; and it emitted no error.
C7_BoundedIteration ==
    \A t \in Turns :
        /\ task[t].llm_calls <= max_iterations
        /\ EndedNormally(t) =>
              /\ task[t].final_response => task[t].llm_calls = task[t].tool_responses + 1
              /\ ~task[t].final_response =>
                    /\ task[t].llm_calls = max_iterations
                    /\ task[t].tool_responses = max_iterations
              /\ CountEvents(sent, t, "error") = 0
\* a turn whose every response carried tool calls ended at the ceiling
C7_Witness ==
    \E t \in Turns :
        /\ EndedNormally(t)
        /\ ~task[t].final_response
        /\ task[t].llm_calls = max_iterations


\* the entry of tool_calls_dict that a sequence of fragments should give for a
\* call index: the in-order concatenation of the fragments' names and arguments
RECURSIVE ConcatNames(_, _)
ConcatNames(frags, index) ==
    IF frags = <<>> THEN <<>>
    ELSE (IF Head(frags).index = index THEN Head(frags).name ELSE <<>>)
         \o ConcatNames(Tail(frags), index)
RECURSIVE ConcatArgs(_, _)
ConcatArgs(frags, index) ==
    IF frags = <<>> THEN <<>>
    ELSE (IF Head(frags).index = index THEN Head(frags).arguments ELSE <<>>)
         \o ConcatArgs(Tail(frags), index)

\* C8: tool-call accumulation. After any sequence of fragments, the entry of
\* every call index holds the in-order concatenation of the name fragments and
\* of the argument fragments addressed to that index, and of no other index.
C8_AccumulationConcatenates ==
    \A p \in 1..Len(acc_dict) :
        /\ acc_dict[p].name = ConcatNames(consumed, acc_dict[p].index)
        /\ acc_dict[p].arguments = ConcatArgs(consumed, acc_dict[p].index)

\* C9: guaranteed cleanup. The step in which a started turn's task finishes
\* leaves cancel_flag false and current_message_id absent.
C9_CleanupOnEveryEnd ==
    [][\A t \in Turns :
          (task[t].started /\ task[t].pc # "done" /\ task'[t].pc = "done") =>
              /\ cancel_flag' = FALSE
              /\ current_message' = NoId]_vars
\* a turn hit by an error of the LLM and then cancelled while it sent the error
\* event has finished, after cancel_flag had been set
C9_Witness ==
    \E t \in Turns :
        /\ task[t].pc = "done" /\ task[t].started
        /\ task[t].cancelled /\ task[t].failed
        /\ ~cancel_flag /\ current_message = NoId

\* C10: final turn-end on every outcome. The last event emitted by a turn that
\* ran and has ended is assistant_end for the message id the turn last assigned.
C10_FinalTurnEnd ==
    \A t \in Turns :
        (task[t].pc = "done" /\ task[t].started) =>
            /\ EventsOf(t) # <<>>
            /\ Last(EventsOf(t)).type = "assistant_end"
            /\ Last(EventsOf(t)).messageId = task[t].message_id

\* C11: no silent drop. A turn created for an accepted submit_message and now
\* over has handed a terminal event (assistant_end or error) to the channel.
C11_NoSilentDrop ==
    \A t \in Turns :
        task[t].pc = "done" =>
            CountEvents(sent, t, "assistant_end") + CountEvents(sent, t, "error") > 0

\* C12: stream/transport error handling. A turn in which the LLM call or its
\* stream raised has emitted exactly one error event, and a turn in which none
\* raised has emitted none; after the failure the turn issues no LLM call and
\* runs no tool, it only finishes, and the step in which it finishes leaves
\* cancel_flag false and current_message_id absent for the turns that follow.
C12_ErrorEndsTurn ==
    /\ [](\A t \in Turns :
            CountEvents(sent, t, "error") = (IF task[t].failed THEN 1 ELSE 0))
    /\ [][\A t \in Turns :
            task[t].failed =>
                /\ task'[t].llm_calls = task[t].llm_calls
                /\ task'[t].tools_run = task[t].tools_run
                /\ task'[t].pc \in {"send_error", "done"}
                /\ (task[t].pc # "done" /\ task'[t].pc = "done") =>
                      (~cancel_flag' /\ current_message' = NoId)]_vars
\* the LLM call of a turn raised, and a later turn of the session got its
\* answer without tool calls and ended with neither error nor cancellation
C12_Witness ==
    \E t, u \in Turns :
        /\ t < u
        /\ task[t].failed /\ task[t].pc = "done" /\ ~task[t].cancelled
        /\ EndedNormally(u) /\ task[u].final_response

\* C13: tool errors are absorbed as data. Whatever the call, execute_tool
\* raises nothing and returns a string, an error string unless the tool
\* returned; the step in which a dispatched tool comes back sends that string
\* as the tool's result and emits no error event, and the step after it
\* appends the tool message carrying the string and goes on with the next tool
\* or the next iteration.
C13_ToolErrorsAbsorbed ==
    /\ [](\A t \in Turns : \A c \in limits.tool_cases :
            task[t].pc = "tool" =>
                /\ ~execute_tool(c).raised
                /\ (c # OkCase => Head(execute_tool(c).result) = "E"))
    /\ [][\A t \in Turns :
            /\ (task[t].pc = "tool" /\ ~task[t].must_cancel /\ task'[t].pc # "tool") =>
                  /\ task'[t].pc = "send_tool"
                  /\ Last(sent'[t]).type = "tool_call"
                  /\ Last(sent'[t]).content = task'[t].tool_result
                  /\ ~task'[t].failed
            /\ (task[t].pc = "send_tool" /\ ~task[t].must_cancel
                    /\ task'[t].pc # "send_tool") =>
                  /\ Len(messages') = Len(messages) + 1
                  /\ Last(messages').role = "tool"
                  /\ Last(messages').content = task[t].tool_result
                  /\ task'[t].pc \in {"tool", "llm", "send_end_cancel", "send_end_final"}
                  /\ CountEvents(sent', t, "error") = 0]_vars

\* C14: session teardown is complete. From the disconnect on, the session
\* store holds no message history, no cancel flag, no current message id and no
\* task for the session id, also while and after the turns in flight unwind.
C14_TeardownComplete ==
    ~connected =>
        /\ entries = {}
        /\ session_task = NoId
        /\ current_message = NoId

\* status of the task a dependency id names, "absent" when the manager holds none
DepStatus(tasks, dep_id) ==
    IF TaskPos(tasks, dep_id) = 0 THEN "absent" ELSE tasks[TaskPos(tasks, dep_id)].status
\* the task at position p of the manager is among the tasks the query returns
IsReturned(tasks, p) ==
    \E i \in 1..Len(get_executable_tasks(tasks)) : get_executable_tasks(tasks)[i] = tasks[p]

\* C15: in every state of the task manager a task is returned by
\* get_executable_tasks exactly when it is pending and each of its dependency
\* ids names a task the manager holds whose status is completed (so never while
\* a dependency is absent, pending, in_progress, failed or blocked); and the
\* query made right after the step that completes its last unmet dependency
\* returns it.
C15_TaskReadiness ==
    /\ [](\A p \in 1..Len(tm_tasks) :
            IsReturned(tm_tasks, p) <=>
                /\ tm_tasks[p].status = "pending"
                /\ \A d \in tm_tasks[p].dependencies :
                       DepStatus(tm_tasks, d) \notin
                           {"absent", "pending", "in_progress", "failed", "blocked"})
    /\ [][\A p \in 1..Len(tm_tasks) :
            (/\ Len(tm_tasks') >= p
             /\ tm_tasks'[p].id = tm_tasks[p].id
             /\ tm_tasks'[p].status = "pending"
             /\ \E d \in tm_tasks'[p].dependencies : DepStatus(tm_tasks, d) # "completed"
             /\ \A d \in tm_tasks'[p].dependencies : DepStatus(tm_tasks', d) = "completed")
            => IsReturned(tm_tasks', p)]_vars
\* a pending task that depends on two tasks is returned, both being completed
C15_Witness ==
    \E p \in 1..Len(tm_tasks) :
        /\ Cardinality(tm_tasks[p].dependencies) = 2
        /\ \A d \in tm_tasks[p].dependencies : DepStatus(tm_tasks, d) = "completed"
        /\ IsReturned(tm_tasks, p)

\* C16: get_executable_tasks returns the ready tasks by priority, critical
\* first, then high, medium, low, and two ready tasks of equal priority in the
\* order of the add_task calls that stored them.
C16_PriorityOrdering ==
    LET ready == get_executable_tasks(tm_tasks)
    IN  \A i, j \in 1..Len(ready) :
            i < j =>
                /\ priority_order(ready[i].priority) <= priority_order(ready[j].priority)
                /\ ready[i].priority = ready[j].priority => ready[i].stamp < ready[j].stamp

\* C19: after every update_task_status call, whichever status of TaskStatus it
\* sets, the counters of get_progress add up: completed + failed + pending +
\* in_progress = total.
C19_ProgressAccounting ==
    LET progress == get_progress(tm_tasks)
    IN  progress.completed + progress.failed + progress.pending + progress.in_progress
            = progress.total

\* every dependency of the task names a completed task of the manager
DepsCompleted(tasks, t) ==
    \A d \in t.dependencies : DepStatus(tasks, d) = "completed"
\* the step marks the task at position p in_progress
Marks(p) ==
    /\ Len(tm_tasks') >= p
    /\ tm_tasks'[p].id = tm_tasks[p].id
    /\ tm_tasks[p].status # "in_progress"
    /\ tm_tasks'[p].status = "in_progress"
\* the step of turn t starts the delegate's run on the task it marked
Delegates(t) == planner[t].pc = "send_in_progress" /\ planner'[t].pc = "delegate"

\* C17: a step of the driver that marks a task in_progress finds all the
\* dependencies of that task completed and the task first in
\* get_executable_tasks(); and the step that hands the task to the delegate
\* finds, at that moment, all the dependencies of the task completed.
C17_DependencyRespectingExecution ==
    /\ [][\A p \in 1..Len(tm_tasks) :
            Marks(p) =>
                /\ DepsCompleted(tm_tasks, tm_tasks[p])
                /\ get_executable_tasks(tm_tasks) # <<>>
                /\ get_executable_tasks(tm_tasks)[1] = tm_tasks[p]]_vars
    /\ [][\A t \in Turns :
            Delegates(t) => DepsCompleted(tm_tasks, planner[t].current)]_vars

\* C18: in every state of a session's task manager, while a planning turn runs
\* its tasks, after it was cancelled and in the turns that follow, at most one
\* task has status in_progress.
C18_OneTaskAtATime == CountStatus(tm_tasks, "in_progress") <= 1

\* C20: while a planning turn is inside _execute_tasks_sequentially, no step
\* lowers the completed counter of get_progress.
C20_CompletedMonotone ==
    [][(\E t \in Turns : planner[t].pc \in InDriver)
           => get_progress(tm_tasks').completed >= get_progress(tm_tasks).completed]_vars

\* turn t is about to resume at the head of the driver's loop, tasks are
\* pending and none of them is ready
Stalled(t) ==
    /\ planner[t].pc \in {"send_todo_list", "send_task_end"}
    /\ ~planner[t].must_cancel
    /\ get_executable_tasks(tm_tasks) = <<>>
    /\ CountStatus(tm_tasks, "pending") > 0
\* positions of run after _execute_tasks_sequentially returned
AfterDriver == {"send_summary_start", "send_summary_chunk", "send_summary_end",
                "plan_end_cancelled", "plan_send_error", "done"}

\* C21: when tasks are pending and none is ready (a dependency cycle, a
\* dependency on a failed task or on an id no task has), the step of the driver
\* leaves the loop for the completion summary: nothing is raised, no error
\* event is sent, the task manager is left as it is (the tasks stay pending);
\* after the driver returned the turn starts no task; and no task of the
\* manager is ever blocked.
C21_SchedulerStall ==
    /\ [](CountStatus(tm_tasks, "blocked") = 0)
    /\ [][\A t \in Turns :
            (Stalled(t) /\ planner'[t].pc # planner[t].pc)
            => /\ planner'[t].pc = "send_summary_start"
               /\ ~planner'[t].failed
               /\ CountEvents(sent', t, "error") = CountEvents(sent, t, "error")
               /\ tm_tasks' = tm_tasks]_vars
    /\ [][\A t \in Turns :
            planner[t].pc \in AfterDriver
            => /\ planner'[t].pc \in AfterDriver
               /\ planner'[t].current = planner[t].current]_vars
\* the driver left the loop of a plan whose last task depends on a failed task
C21_Witness ==
    \E t \in Turns :
        /\ planner[t].pc = "send_summary_start"
        /\ ~planner[t].cancelled
        /\ \E p \in 1..Len(tm_tasks) :
               /\ tm_tasks[p].status = "pending"
               /\ \E d \in tm_tasks[p].dependencies : DepStatus(tm_tasks, d) = "failed"

\* a todo_update event with this task id, status and text was sent
StatusEventSent(id, status, text) ==
    \E t \in Turns : \E i \in 1..Len(sent[t]) :
        sent[t][i] = Event("todo_update", NoId, <<id, status, text>>)

\* C22: a task the driver marked in_progress is resolved before the driver
\* marks another one and before the planning turn is over, however it ends: no
\* task is in_progress then; a completed task carries the captured text as its
\* result, a failed one the exception's message as its error, and the
\* todo_update event of that final status was sent.
C22_TaskOutcome ==
    /\ [](\A t \in Turns :
            planner[t].pc = "done" => CountStatus(tm_tasks, "in_progress") = 0)
    /\ [][\A p \in 1..Len(tm_tasks) :
            Marks(p) => CountStatus(tm_tasks, "in_progress") = 0]_vars
    /\ [](\A p \in 1..Len(tm_tasks) :
            /\ tm_tasks[p].status = "completed"
               => /\ tm_tasks[p].result # NoneValue
                  /\ StatusEventSent(tm_tasks[p].id, "completed", tm_tasks[p].result)
            /\ tm_tasks[p].status = "failed"
               => /\ tm_tasks[p].error # NoneValue
                  /\ StatusEventSent(tm_tasks[p].id, "failed", tm_tasks[p].error))

\* the texts of the assistant_chunk events among the events, in order, joined
RECURSIVE ChunkTexts(_)
ChunkTexts(events) ==
    IF events = <<>> THEN <<>>
    ELSE (IF Head(events).type = "assistant_chunk" THEN Head(events).content ELSE <<>>)
             \o ChunkTexts(Tail(events))
\* the last n elements of a sequence
Suffix(seq, n) == SubSeq(seq, Len(seq) - n + 1, Len(seq))
InDelegate == InDelegateTry \cup InDelegateHandler

\* C23: the delegate starts on a history of its own that holds, after the
\* system prompt, the task's description and nothing else; no step of the
\* delegation changes the history of the planning conversation; every event the
\* delegate sends reaches the real websocket; and the result stored for the task
\* is the join, in order, of the texts of the delegate's assistant_chunk events,
\* to which its other events add nothing.
C23_DelegationIsolationAndCapture ==
    /\ [][\A t \in Turns :
            Delegates(t) =>
                /\ planner'[t].task_messages
                       = <<SystemMsg, UserMsg(planner[t].current.description)>>
                /\ messages' = messages]_vars
    /\ [][\A t \in Turns :
            (planner[t].pc \in InDelegate /\ planner'[t] # planner[t])
            => messages' = messages]_vars
    /\ [](\A t \in Turns :
            planner[t].pc \in InDelegate
            => /\ Len(sent[t]) >= Len(planner[t].delegate_events)
               /\ Suffix(sent[t], Len(planner[t].delegate_events))
                      = planner[t].delegate_events)
    /\ [][\A t \in Turns :
            (planner[t].pc \in InDelegate /\ planner'[t].pc = "send_task_end")
            => LET p == TaskPos(tm_tasks', planner[t].current.id)
               IN  /\ p # 0
                   /\ tm_tasks'[p].status = "completed"
                   /\ tm_tasks'[p].result = ChunkTexts(planner'[t].delegate_events)]_vars

\* a store that receives add_memory calls only
InitAdds ==
    /\ SessionInit
    /\ limits = Limits(MaxTurns, MaxResponses, MaxChunks)
                    @@ MemoryLimits(MaxMemoryCalls, MaxShortTerm, MaxLongTerm, MemoryImportance)
    /\ fragments = <<>>
    /\ consumed = <<>>
    /\ acc_dict = <<>>

NextAdds == AddMemory

SpecAdds == InitAdds /\ [][NextAdds]_vars

\* a store that receives every operation
InitStore ==
    /\ SessionInit
    /\ limits = Limits(MaxTurns, MaxResponses, MaxChunks)
                    @@ MemoryLimits(MaxStoreCalls, MaxShortTerm, MaxLongTerm, {"LOW", "CRITICAL"})
    /\ fragments = <<>>
    /\ consumed = <<>>
    /\ acc_dict = <<>>

NextStore ==
    \/ AddMemory
    \/ UpdateMemory
    \/ DeleteMemory
    \/ ClearMemories
    \/ ImportMemories
    \/ ExportToFresh

SpecStore == InitStore /\ [][NextStore]_vars

(* ------------------------------ the store -------------------------------*)
\* the memories of a type in a store or in a set of memories
OfType(set, memory_type) == {m \in set : m.memory_type = memory_type}
Stored == {memories[p] : p \in 1..Len(memories)}
Smaller(a, b) == IF a < b THEN a ELSE b

\* the memories of `kept` are `cap` greatest of `all` by their keys, or all of them
GreatestOf(kept, all, cap, key) ==
    /\ kept \subseteq all
    /\ Cardinality(kept) = Smaller(cap, Cardinality(all))
    /\ \A k \in kept, a \in all \ kept : ~KeyLess(key[k], key[a])

\* C24: after add calls only, the store holds at most max_short_term
\* short_term memories, they are the most recent by timestamp of all the
\* short_term memories that were added, and the add of a short_term memory
\* removes no long_term and no working memory.
C24_ShortTermEvictionBound ==
    /\ [](Cardinality(OfType(Stored, "SHORT_TERM")) <= limits.max_short_term)
    /\ [][mem_last'.op = "add_memory" /\ mem_last'.memory.memory_type = "SHORT_TERM"
            => \A m \in Stored :
                   m.memory_type # "SHORT_TERM" => m \in {memories'[p] : p \in 1..Len(memories')}]_vars
    /\ [](GreatestOf(OfType(Stored, "SHORT_TERM"), OfType(mem_added, "SHORT_TERM"),
                     limits.max_short_term,
                     [m \in mem_added |-> ShortTermKey(m)]))

\* C25: after add calls of long_term memories only, the store holds at most
\* max_long_term of them, they are the greatest by (importance, timestamp) of
\* all the long_term memories that were added, and no memory that is gone is
\* more important than one that is left.
C25_LongTermEvictionPreservesImportance ==
    (\A m \in mem_added : m.memory_type = "LONG_TERM")
    => /\ Cardinality(OfType(Stored, "LONG_TERM")) <= limits.max_long_term
       /\ \A gone \in mem_added \ Stored, left \in Stored :
              importance_order(gone.importance) <= importance_order(left.importance)
       /\ GreatestOf(OfType(Stored, "LONG_TERM"), OfType(mem_added, "LONG_TERM"),
                     limits.max_long_term, [m \in mem_added |-> LongTermKey(m)])

\* C26: in every state of a store that receives add, update, delete, clear
\* and import calls, the short_term memories number at most max_short_term
\* and the long_term memories at most max_long_term.
C26_MemoryCapInvariant ==
    /\ Len(get_memories_by_type(memories, "SHORT_TERM")) <= limits.max_short_term
    /\ Len(get_memories_by_type(memories, "LONG_TERM")) <= limits.max_long_term

InitManager ==
    /\ SessionInit
    /\ limits = Limits(MaxTurns, MaxResponses, MaxChunks)
                    @@ [manager_calls |-> MaxManagerCalls]
    /\ fragments = <<>>
    /\ consumed = <<>>
    /\ acc_dict = <<>>

NextManager ==
    \/ RegisterAgent
    \/ UnregisterAgent
    \/ SetSessionAgent
    \/ SwitchAgent
    \/ ManagerRun

SpecManager == InitManager /\ [][NextManager]_vars

(* --------------------------- the agent manager --------------------------*)
\* the name under which the manager looks up the agent of a turn
ResolvedName(m, session_id, name) ==
    IF name # NoAgentName THEN name
    ELSE IF m._session_agents[session_id] # NoAgentName THEN m._session_agents[session_id]
    ELSE m._default_agent
Registered(m, name) == \E p \in 1..Len(m._agents) : m._agents[p].name = name
RegisteredAs(m, name) ==
    IF Registered(m, name)
    THEN m._agents[CHOOSE p \in 1..Len(m._agents) : m._agents[p].name = name]
    ELSE NoAgent
Called(op) == routed'.calls = routed.calls + 1 /\ routed'.last.op = op

\* C28: register_agent makes the agent the one retrieved under its name, in
\* place of any agent registered under that name before; the name becomes the
\* default if is_default or if there was no default, otherwise the default
\* stays; the bindings of the sessions and the other agents stay.
C28_AgentRegistration ==
    [][Called("register_agent") =>
         LET agent == routed'.last.agent
             is_default == routed'.last.is_default
         IN  /\ get_agent(manager', agent.name) = agent
             /\ Cardinality({p \in 1..Len(manager'._agents) :
                                 manager'._agents[p].name = agent.name}) = 1
             /\ manager'._default_agent =
                    IF is_default \/ manager._default_agent = NoAgentName
                    THEN agent.name ELSE manager._default_agent
             /\ manager'._session_agents = manager._session_agents
             /\ \A name \in AgentNames \ {agent.name} :
                    RegisteredAs(manager', name) = RegisteredAs(manager, name)]_vars

\* a second object was registered, not as default, under a name to which a
\* session is bound, while another name is the default
C28_Witness ==
    /\ routed.last.op = "register_agent"
    /\ ~routed.last.is_default
    /\ routed.last.agent.serial = 2
    /\ manager._default_agent \notin {NoAgentName, routed.last.agent.name}
    /\ \E session_id \in Sessions :
           manager._session_agents[session_id] = routed.last.agent.name
    /\ RegisteredAs(manager, routed.last.agent.name) = routed.last.agent

\* C29: set_session_agent and switch_agent with a name that is not registered
\* report the failure and leave the bindings, the agents and the default as
\* they were; with a registered name they bind the session to it, in place
\* of an earlier binding, and leave the bindings of the other sessions.
C29_SessionBinding ==
    [][(Called("set_session_agent") \/ Called("switch_agent")) =>
         LET session_id == routed'.last.session_id
             name == routed'.last.agent_name
             success == IF routed'.last.op = "switch_agent"
                        THEN routed'.last.result.success ELSE routed'.last.result
         IN  /\ ~Registered(manager, name) => ~success /\ manager' = manager
             /\ Registered(manager, name) =>
                  /\ success
                  /\ manager'._session_agents[session_id] = name
                  /\ \A other \in Sessions \ {session_id} :
                         manager'._session_agents[other] = manager._session_agents[other]
                  /\ manager'._agents = manager._agents
                  /\ manager'._default_agent = manager._default_agent]_vars

\* a bound session was asked to bind to a name that is not registered
C29_Witness ==
    /\ routed.last.op = "set_session_agent"
    /\ ~routed.last.result
    /\ ~Registered(manager, routed.last.agent_name)
    /\ manager._session_agents[routed.last.session_id] \notin
           {NoAgentName, routed.last.agent_name}

\* C30: run looks the agent up under the given name, else under the name the
\* session is bound to, else under the default; when no agent is registered
\* under it, one error event is sent, no agent runs and the history of the
\* session stays; otherwise that agent and no other runs the turn.
C30_TurnRouting ==
    [][Called("run") =>
         LET session_id == routed'.last.session_id
             agent == RegisteredAs(manager,
                          ResolvedName(manager, session_id, routed'.last.agent_name))
         IN  /\ manager' = manager
             /\ routed'.last.ran = agent
             /\ \A other \in Sessions \ {session_id} :
                    routed'.messages[other] = routed.messages[other]
             /\ agent = NoAgent =>
                  /\ routed'.sent = Append(routed.sent, ErrorEvent)
                  /\ routed'.messages = routed.messages
             /\ agent # NoAgent =>
                  /\ routed'.sent = routed.sent
                  /\ Len(routed'.messages[session_id])
                         > Len(routed.messages[session_id])
                  /\ routed'.messages[session_id][Len(routed'.messages[session_id])]
                         = [role |-> "user", agent |-> agent.name]]_vars

\* a turn named an agent other than the one its session is bound to, and
\* the named agent ran it
C30_Witness ==
    /\ routed.last.op = "run"
    /\ routed.last.agent_name # NoAgentName
    /\ manager._session_agents[routed.last.session_id] \notin
           {NoAgentName, routed.last.agent_name}
    /\ routed.last.ran.name = routed.last.agent_name

\* the system messages of a history
SystemCount(history) == Cardinality({p \in 1..Len(history) : history[p].role = "system"})

C32_AddReturnsStoredRecord ==
    mem_last.op = "add_memory" => get_memory(memories, mem_last.memory.id) = mem_last.memory

\* one message for the planning agent, answered by a plan of one task more
\* than the driver's max_iterations
InitLong ==
    /\ SessionInit
    /\ limits = Limits(1, MaxResponses, MaxChunks)
                    @@ [plans |-> {FlatPlan(PlannerMaxIterations + 1),
                                   ChainPlan(PlannerMaxIterations + 1)},
                        stops |-> MaxStops]
    /\ fragments = <<>>
    /\ consumed = <<>>
    /\ acc_dict = <<>>

NextLong ==
    \/ PlanSubmitMessage
    \/ PlanStop
    \/ PlanTaskDoneCallback
    \/ \E t \in Turns : PlannerStep(t)

SpecLong == InitLong /\ [][NextLong]_vars

\* no stop was sent, no delegation and no step of the turn failed
Undisturbed(t) ==
    /\ plan_stops = 0
    /\ ~planner[t].cancelled
    /\ ~planner[t].failed
    /\ CountStatus(tm_tasks, "failed") = 0

\* C33: with a plan without cycles whose dependencies are tasks of the plan,
\* no failing delegation and no cancellation, the driver has marked every
\* task completed when it stops, and no task is ready then.
C33_SchedulerLiveness ==
    \A t \in Turns :
        (planner[t].pc \in AfterDriver /\ Undisturbed(t))
        => /\ get_executable_tasks(tm_tasks) = <<>>
           /\ CountStatus(tm_tasks, "completed") = Len(tm_tasks)

(* ------------------------- superseded turns ----------------------------*)
\* the turn of the session that started last and has not ended, NoId if none
LatestRunning ==
    IF \E t \in Turns : task[t].started /\ \A u \in Turns : task[u].started => u <= t
    THEN LET t == CHOOSE t \in Turns :
                      task[t].started /\ \A u \in Turns : task[u].started => u <= t
         IN  IF task[t].pc \notin {"none", "new", "done"} THEN t ELSE NoId
    ELSE NoId

\* C34: while the turn that started last is running (and the channel is
\* open), the session's current_message_id is the message id that this turn
\* assigned last, whatever the order in which the steps of the turn and the
\* cancellation handler and cleanup of the turn it superseded are run.
C34_SupersededCleanup ==
    (connected /\ LatestRunning # NoId)
        => current_message = task[LatestRunning].message_id

\* C35: after a stop event that arrived while the planning turn was inside a
\* delegate's run, the planner starts no further task: the turn is never
\* again at the point where it has marked a task in_progress and is about to
\* delegate it.
C35_StopHaltsPlanning ==
    \A t \in Turns : planner[t].stopped => planner[t].pc # "send_in_progress"

(* ----------------------- turn-start / turn-end pairing -----------------*)
\* an event of the given type and message id is among the first n events
SentBefore(events, n, type, message_id) ==
    \E q \in 1..n : events[q].type = type /\ events[q].messageId = message_id

\* C36: in the events of one turn, an assistant_end for a message id comes
\* after an assistant_start for that id and after no other assistant_end for
\* it, and an assistant_chunk for an id comes after the id's assistant_start
\* and before its assistant_end.
C36_StartEndPairing ==
    \A t \in Turns :
        \A p \in 1..Len(sent[t]) :
            sent[t][p].type \in {"assistant_end", "assistant_chunk"} =>
                /\ SentBefore(sent[t], p - 1, "assistant_start", sent[t][p].messageId)
                /\ ~SentBefore(sent[t], p - 1, "assistant_end", sent[t][p].messageId)

(* ------------------------ each task runs at most once -------------------*)
\* the moves of a task's status that a scheduling run makes
Forward(old, new) ==
    \/ new = old
    \/ old = "pending" /\ new = "in_progress"
    \/ old = "in_progress" /\ new \in {"completed", "failed"}

\* C37: the status of a task (an id together with the add_task call that
\* stored it) only moves from pending to
\* in_progress and from in_progress to completed or failed; the step in which
\* the driver selects a task selects one that was pending and makes it
\* in_progress, so a completed or failed task is not selected again; and a
\* delegate's run is entered only from that position, for the task selected,
\* once for each selection.
C37_TaskRunsOnce ==
    [][/\ \A p \in 1..Len(tm_tasks) : \A q \in 1..Len(tm_tasks') :
            (tm_tasks'[q].id = tm_tasks[p].id /\ tm_tasks'[q].stamp = tm_tasks[p].stamp)
                => Forward(tm_tasks[p].status, tm_tasks'[q].status)
       /\ \A t \in Turns :
            /\ (planner'[t].pc = "send_in_progress" /\ planner[t].pc # "send_in_progress") =>
                  LET id == planner'[t].current.id
                  IN  /\ TaskPos(tm_tasks, id) # 0
                      /\ tm_tasks[TaskPos(tm_tasks, id)].status = "pending"
                      /\ tm_tasks'[TaskPos(tm_tasks', id)].status = "in_progress"
            /\ (planner'[t].pc = "delegate" /\ planner[t].pc # "delegate") =>
                  /\ planner[t].pc = "send_in_progress"
                  /\ planner'[t].current = planner[t].current
                  /\ tm_tasks[TaskPos(tm_tasks, planner[t].current.id)].status
                         = "in_progress"]_vars

(* ------------------------------ stale stop ------------------------------*)
\* a stop event was received while no turn of the session was running, and
\* turn t, submitted after it, has not started yet: the flag the stop set is
\* still there, and no task was cancelled by it
StaleStop(t) ==
    /\ cancel_flag
    /\ task[t].pc = "new"
    /\ ~task[t].must_cancel
    /\ \A u \in Turns \ {t} : task[u].pc \in {"none", "done"}

\* C38: a stop received while no turn is running sets the cancel flag and
\* cancels nothing; the first step of a turn submitted after it clears the
\* cancel flag and goes on to its first LLM call exactly as a turn that found
\* the flag clear: it has seen no flag, is not cancelled and has sent no event.
C38_StaleStopIgnored ==
    [][/\ (~TaskRunning /\ ~cancel_flag /\ cancel_flag') => task' = task
       /\ \A t \in Turns :
          (StaleStop(t) /\ task'[t].pc # "new") =>
              /\ ~cancel_flag'
              /\ task'[t].started
              /\ task'[t].pc = "llm"
              /\ task'[t].llm_calls = 1
              /\ task'[t].flag_seen = {}
              /\ ~task'[t].cancelled
              /\ sent'[t] = <<>>
              /\ current_message' = task'[t].message_id]_vars
\* the first turn of the session was submitted after a stop and is about to start
C38_Witness ==
    /\ StaleStop(1)
    /\ session_task = 1
    /\ messages = <<>>

(* ------------------------- outcome of a delegation ----------------------*)
\* the delegate's run of the task in hand handed an error event to the channel
DelegateSentError(t) ==
    \E p \in 1..Len(planner[t].delegate_events) :
        planner[t].delegate_events[p].type = "error"

\* C39: when the planner has recorded the outcome of the task in hand and the
\* delegate's turn for it sent an error event, the task is failed, not
\* completed.
C39_CompletedOnlyOnSuccess ==
    \A t \in Turns :
        (planner[t].pc = "send_task_end" /\ DelegateSentError(t)) =>
            LET p == TaskPos(tm_tasks, planner[t].current.id)
            IN  p # 0 => tm_tasks[p].status = "failed"

(* ----------------------- plans of successive turns ----------------------*)
\* the task manager still holds the record that add_task stored for `old`
Kept(tasks, old) ==
    \E q \in 1..Len(tasks) : tasks[q].id = old.id /\ tasks[q].stamp = old.stamp

\* C40: the step in which a planning turn stores its plan leaves the record
\* of every task of an earlier plan in place: a new task whose id equals the
\* id of an earlier task does not replace that task's record.
C40_PlansDoNotLeak ==
    [][\A t \in Turns :
          (planner[t].pc = "planning" /\ planner'[t].pc = "send_todo_list") =>
              \A p \in 1..Len(tm_tasks) : Kept(tm_tasks', tm_tasks[p])]_vars

=============================================================================
